---- MODULE Spec2Model ----
(***************************************************************************)
(* TRNX: the Trenex builder (src/trenex/trenex.py), the TRNX runner        *)
(* (src/trenex/trnx.py) and the plugin port bindings                       *)
(* (src/core/plugin/plugin_base.py), as a state machine.                   *)
(***************************************************************************)
EXTENDS Integers, Sequences, FiniteSets, TLC

\* ------------------------------------------------------------------------
\* Bounds of the model
\* ------------------------------------------------------------------------
\* total number of plugin instances the loader creates
MaxLoads == 2
\* total number of recorded connections
MaxEdges == 2
\* build_trnx() is not called once this many SharedMemoryPort objects exist
MaxPorts == 1
\* number of connections of the wirings SpecBuild starts from
MaxWireEdges == 3
\* largest extent of a dimension of the arrays of SpecPort
MaxDim == 2
\* number of port objects SpecMem constructs on the one block name
MaxHandles == 2
\* number of different values the draws of IDGenerator.generate_id take
MaxIds == 3

\* ------------------------------------------------------------------------
\* The plugin packages of the model: three plugin classes.  A is a source,
\* B and C both consume "i" and produce "o"; C produces another descriptor.
\* ------------------------------------------------------------------------
TrnxNames == {"t1", "t2"}
\* the TRNX names the commands of Spec use
MainTrnxNames == {"t1"}
Classes == {"A", "B", "C"}
\* a package path names the class its entry point instantiates; "bad" is an
\* archive the loader rejects
Paths == Classes \cup {"bad"}
OutPortNames == {"o", "x", "b_p", "p"}
\* two more source classes, for SpecAlias: F provides "b_p", F_b provides "p"
AliasSources == {"F", "F_b"}
InPortNames == {"i"}

D1 == [shape |-> <<2>>, dtype |-> "f64"]
D2 == [shape |-> <<3>>, dtype |-> "f64"]

\* Plugin._define_inputs of each class: port name -> (shape, dtype)
RequiredInputs(c) ==
    IF c \in {"A"} \cup AliasSources
    THEN [p \in {} |-> D1] ELSE [p \in {"i"} |-> D1]

\* Plugin._define_outputs of each class: port name -> (shape, dtype)
ProvidedOutputs(c) ==
    IF c = "C" THEN [p \in {"o"} |-> D2]
    ELSE IF c = "F" THEN [p \in {"b_p"} |-> D1]
    ELSE IF c = "F_b" THEN [p \in {"p"} |-> D1]
    ELSE [p \in {"o"} |-> D1]

\* None, as the value of a name-valued variable
None == "None"
\* a port name without a binding in Plugin._inputs or Plugin._outputs
NoPort == 0
\* TRNX.plugins: TRNX.__init__ sets no such attribute, build_trnx does
NoAttr == [set |-> FALSE, list |-> <<>>]
Attr(list) == [set |-> TRUE, list |-> list]

\* ------------------------------------------------------------------------
\* State
\* ------------------------------------------------------------------------
VARIABLES
    _trnxs,              \* Trenex._trnxs: the names of the TRNX objects
    _active_trnx,        \* Trenex._active_trnx: a name, or None
    _loaded_plugins,     \* Trenex._loaded_plugins[t]: dict name -> instance,
                         \*   as the sequence of its items in insertion order
    _plugin_connections, \* Trenex._plugin_connections[t]: nested dicts, as
                         \*   sequences of items in insertion order
    execution_order,     \* Trenex.execution_order
    _plugins,            \* TRNX._plugins of each TRNX: instances, load order
    plugins,             \* TRNX.plugins of each TRNX: the attribute build sets,
                         \*   [set, list]
    _is_built,           \* TRNX._is_built of each TRNX
    insts,               \* every Plugin instance created: class, _inputs, _outputs
    ports,               \* every SharedMemoryPort object created
    shm,                 \* names of the OS shared-memory blocks that exist
    ret,                 \* the last facade call and its outcome
    running,             \* the TRNX whose run() is executing, or None
    runIdx,              \* run(): position of the for loop in _plugins
    tickLog,             \* run(): instances whose process() completed this tick
    cancelled,           \* a stop of the executing run() has been requested
    sm_port,             \* SpecPort: the SharedMemoryPort object under test
    array,               \* SpecPort: SharedMemoryPort.array, the block's contents
    pret,                \* SpecPort: the last call on the port and its outcome
    mem,                 \* the contents of every OS shared-memory block created
    link,                \* the block the OS name designates, 0 when unlinked
    hblk,                \* of every port object of SpecMem: the block its
                         \*   view self.array maps
    got,                 \* the array the last read() returned to its caller
    mret,                \* the last call on a port object and its outcome
    lock,                \* SpecConc: self.lock of every port object, held or not
    thr,                 \* SpecConc: the threads inside write() and read()
    _generated_ids,      \* IDGenerator._generated_ids: dict id -> object
    iret,                \* the last IDGenerator call and its outcome
    kahn,                \* SpecKahn: the locals of _compute_execution_order,
                         \*   [dependency_graph, in_degree, queue,
                         \*   sorted_plugins, pc]
    _children_ns,        \* Namespace._children_ns: dict name -> Namespace
    _children_items,     \* Namespace._children_items: dict name -> object
    __dict__,            \* Namespace: the instance attributes other than the
                         \*   two dicts, name -> value
    nret                 \* the last Namespace call and its outcome

vars == <<_trnxs, _active_trnx, _loaded_plugins, _plugin_connections,
          execution_order, _plugins, plugins, _is_built, insts, ports, shm,
          ret, running, runIdx, tickLog, cancelled, sm_port, array, pret,
          mem, link, hblk, got, mret, lock, thr, _generated_ids, iret,
          kahn, _children_ns, _children_items, __dict__, nret>>

builderVars == <<_trnxs, _active_trnx, _loaded_plugins, _plugin_connections,
                 execution_order, _plugins, plugins, _is_built, insts, ports,
                 shm>>

graphVars == <<_trnxs, _active_trnx, _loaded_plugins, _plugin_connections,
               execution_order, _plugins, plugins, _is_built, insts>>

runVars == <<running, runIdx, tickLog, cancelled>>

portVars == <<sm_port, array, pret>>

memVars == <<mem, link, hblk, got, mret>>

concVars == <<lock, thr>>

idVars == <<_generated_ids, iret>>

kahnVars == <<kahn>>

nsVars == <<_children_ns, _children_items, __dict__, nret>>

\* ------------------------------------------------------------------------
\* Helpers on dicts kept as item sequences
\* ------------------------------------------------------------------------
\* position of key k in the item sequence d (0 when absent): "k in d"
KeyIndex(d, k) ==
    IF \E j \in 1..Len(d) : d[j].key = k
    THEN CHOOSE j \in 1..Len(d) : d[j].key = k
    ELSE 0

HasKey(d, k) == KeyIndex(d, k) # 0

\* d[k]
Lookup(d, k) == d[KeyIndex(d, k)].val

\* d.keys(), in insertion order
Keys(d) == [j \in 1..Len(d) |-> d[j].key]

KeySet(d) == {d[j].key : j \in 1..Len(d)}

\* d[k] = v: an existing key keeps its position
SetItem(d, k, v) ==
    IF HasKey(d, k)
    THEN [d EXCEPT ![KeyIndex(d, k)] = [key |-> k, val |-> v]]
    ELSE Append(d, [key |-> k, val |-> v])

\* the outcome of a facade call: the call and "ok" or the exception raised
Ret(op, err) == [op |-> op, err |-> err]

\* the outcome of a call on a port: the call, "ok" or the exception, and the
\* array passed (write) or returned (read)
PRet(op, err, val) == [op |-> op, err |-> err, val |-> val]

\* no array
NoTensor == [shape |-> <<>>, dtype |-> "none", data |-> <<>>]

\* the outcome of a call on port object h of SpecMem
MRet(op, h, err, val) == [op |-> op, h |-> h, err |-> err, val |-> val]

\* what a caller holds of a read(): a copy (its elements) or, were it a
\* view, the block it shows
Copy(data) == [view |-> FALSE, blk |-> 0, data |-> data]

\* the outcome of an IDGenerator call
IRet(op, err, id) == [op |-> op, err |-> err, id |-> id]

\* no port object of SpecMem, no thread of SpecConc, no identifier
NoMem ==
    /\ mem = <<>>
    /\ link = 0
    /\ hblk = <<>>
    /\ got = Copy(<<>>)
    /\ mret = MRet("init", 0, "ok", NoTensor)

NoConc == lock = <<>> /\ thr = <<>>

NoIds == _generated_ids = <<>> /\ iret = IRet("init", "ok", "")

\* the outcome of a Namespace call
NRet(op, name, err) == [op |-> op, name |-> name, err |-> err]

\* _compute_execution_order is not executing; the Namespace is empty
NoKahn == kahn = [pc |-> "idle"]

NoNs ==
    /\ _children_ns = <<>>
    /\ _children_items = <<>>
    /\ __dict__ = <<>>
    /\ nret = NRet("init", "", "ok")

\* ------------------------------------------------------------------------
\* Init: Trenex.__init__
\* ------------------------------------------------------------------------
Init ==
    /\ _trnxs = {}
    /\ _active_trnx = None
    /\ _loaded_plugins = [t \in TrnxNames |-> <<>>]
    /\ _plugin_connections = [t \in TrnxNames |-> <<>>]
    /\ execution_order = <<>>
    /\ _plugins = [t \in TrnxNames |-> <<>>]
    /\ plugins = [t \in TrnxNames |-> NoAttr]
    /\ _is_built = [t \in TrnxNames |-> FALSE]
    /\ insts = <<>>
    /\ ports = <<>>
    /\ shm = {}
    /\ ret = Ret("init", "ok")
    /\ running = None
    /\ runIdx = 0
    /\ tickLog = <<>>
    /\ cancelled = FALSE
    /\ sm_port = NoPort
    /\ array = <<>>
    /\ pret = PRet("init", "ok", NoTensor)
    /\ NoMem
    /\ NoConc
    /\ NoIds
    /\ NoKahn
    /\ NoNs

\* ------------------------------------------------------------------------
\* Trenex.start_new_trnx(name)
\* ------------------------------------------------------------------------
\* start_new_trnx without the test of lines 29-30: the name is given a new
\* TRNX and new, empty maps
start_new_trnx_overwrite(name) ==
    /\ running = None
    /\ _trnxs' = _trnxs \cup {name}
    /\ _loaded_plugins' = [_loaded_plugins EXCEPT ![name] = <<>>]
    /\ _plugin_connections' = [_plugin_connections EXCEPT ![name] = <<>>]
    /\ _plugins' = [_plugins EXCEPT ![name] = <<>>]
    /\ plugins' = [plugins EXCEPT ![name] = NoAttr]
    /\ _is_built' = [_is_built EXCEPT ![name] = FALSE]
    /\ _active_trnx' = name
    /\ ret' = Ret("start_new_trnx", "ok")
    /\ UNCHANGED <<execution_order, insts, ports, shm>>
    /\ UNCHANGED <<runVars, portVars, memVars, concVars, idVars, kahnVars,
                 nsVars>>

start_new_trnx(name) ==
    /\ running = None
    /\ IF name \in _trnxs
       THEN /\ ret' = Ret("start_new_trnx", "ValueError")
            /\ UNCHANGED builderVars
       ELSE /\ _trnxs' = _trnxs \cup {name}
            /\ _loaded_plugins' = [_loaded_plugins EXCEPT ![name] = <<>>]
            /\ _plugin_connections' = [_plugin_connections EXCEPT ![name] = <<>>]
            /\ _plugins' = [_plugins EXCEPT ![name] = <<>>]
            /\ plugins' = [plugins EXCEPT ![name] = NoAttr]
            /\ _is_built' = [_is_built EXCEPT ![name] = FALSE]
            /\ _active_trnx' = name
            /\ ret' = Ret("start_new_trnx", "ok")
            /\ UNCHANGED <<execution_order, insts, ports, shm>>
    /\ UNCHANGED <<runVars, portVars, memVars, concVars, idVars, kahnVars,
                 nsVars>>

\* ------------------------------------------------------------------------
\* Trenex.set_active_trnx(name)
\* ------------------------------------------------------------------------
set_active_trnx(name) ==
    /\ running = None
    /\ IF name \notin _trnxs
       THEN /\ ret' = Ret("set_active_trnx", "ValueError")
            /\ UNCHANGED builderVars
       ELSE /\ _active_trnx' = name
            /\ ret' = Ret("set_active_trnx", "ok")
            /\ UNCHANGED <<_trnxs, _loaded_plugins, _plugin_connections,
                           execution_order, _plugins, plugins, _is_built,
                           insts, ports, shm>>
    /\ UNCHANGED <<runVars, portVars, memVars, concVars, idVars, kahnVars,
                 nsVars>>

\* ------------------------------------------------------------------------
\* Plugin.__init__: a new instance of class c, nothing bound
\* ------------------------------------------------------------------------
NewPlugin(c) ==
    [cls |-> c,
     _inputs |-> [p \in InPortNames |-> NoPort],
     _outputs |-> [p \in OutPortNames |-> NoPort]]

\* ------------------------------------------------------------------------
\* Trenex.load_plugin(plugin_filepath)
\* ------------------------------------------------------------------------
\* load_plugin when _plugins is one list object shared by every TRNX (a
\* class attribute that __init__ does not replace)
load_plugin_shared(path) ==
    /\ running = None
    /\ Len(insts) < MaxLoads
    /\ IF _active_trnx = None
       THEN /\ ret' = Ret("load_plugin", "ValueError")
            /\ UNCHANGED builderVars
       ELSE IF path \notin Classes
       THEN /\ ret' = Ret("load_plugin", "LoadError")
            /\ UNCHANGED builderVars
       ELSE LET t == _active_trnx
                inst == Len(insts) + 1
            IN  /\ insts' = Append(insts, NewPlugin(path))
                /\ _loaded_plugins' =
                     [_loaded_plugins EXCEPT ![t] = SetItem(@, path, inst)]
                /\ _plugins' =
                     [u \in TrnxNames |->
                        IF u \in _trnxs THEN Append(_plugins[u], inst)
                        ELSE _plugins[u]]
                /\ ret' = Ret("load_plugin", "ok")
                /\ UNCHANGED <<_trnxs, _active_trnx, _plugin_connections,
                               execution_order, plugins, _is_built, ports,
                               shm>>
    /\ UNCHANGED <<runVars, portVars, memVars, concVars, idVars, kahnVars,
                   nsVars>>

load_plugin(path) ==
    /\ running = None
    /\ Len(insts) < MaxLoads
    /\ IF _active_trnx = None
       THEN /\ ret' = Ret("load_plugin", "ValueError")
            /\ UNCHANGED builderVars
       ELSE IF path \notin Classes
       THEN \* the loader raises before anything is stored
            /\ ret' = Ret("load_plugin", "LoadError")
            /\ UNCHANGED builderVars
       ELSE LET t == _active_trnx
                inst == Len(insts) + 1
            IN  /\ insts' = Append(insts, NewPlugin(path))
                /\ _loaded_plugins' =
                     [_loaded_plugins EXCEPT ![t] = SetItem(@, path, inst)]
                /\ _plugins' = [_plugins EXCEPT ![t] = Append(@, inst)]
                /\ ret' = Ret("load_plugin", "ok")
                /\ UNCHANGED <<_trnxs, _active_trnx, _plugin_connections,
                               execution_order, plugins, _is_built, ports,
                               shm>>
    /\ UNCHANGED <<runVars, portVars, memVars, concVars, idVars, kahnVars,
                 nsVars>>

\* ------------------------------------------------------------------------
\* Trenex.unload_plugin(plugin_name): TRNX has no attribute "name" (it has
\* "_name"), so line 59 raises AttributeError whenever a TRNX is active
\* ------------------------------------------------------------------------
\* unload_plugin with the attributes TRNX has (_name, _plugins): lines 60-63
\* remove the plugin from the map and from the list
unload_plugin_removes(plugin_name) ==
    /\ running = None
    /\ IF _active_trnx = None
       THEN /\ ret' = Ret("unload_plugin", "ValueError")
            /\ UNCHANGED builderVars
       ELSE LET t == _active_trnx
                loaded == _loaded_plugins[t]
            IN  IF ~HasKey(loaded, plugin_name)
                THEN /\ ret' = Ret("unload_plugin", "ValueError")
                     /\ UNCHANGED builderVars
                ELSE LET inst == Lookup(loaded, plugin_name)
                     IN  /\ _loaded_plugins' =
                              [_loaded_plugins EXCEPT ![t] =
                                 SelectSeq(@, LAMBDA it : it.key # plugin_name)]
                         /\ _plugins' =
                              [_plugins EXCEPT ![t] =
                                 SelectSeq(@, LAMBDA x : x # inst)]
                         /\ ret' = Ret("unload_plugin", "ok")
                         /\ UNCHANGED <<_trnxs, _active_trnx,
                                        _plugin_connections, execution_order,
                                        plugins, _is_built, insts, ports, shm>>
    /\ UNCHANGED <<runVars, portVars, memVars, concVars, idVars, kahnVars,
                   nsVars>>

unload_plugin(plugin_name) ==
    /\ running = None
    /\ ret' = Ret("unload_plugin",
                  IF _active_trnx = None THEN "ValueError" ELSE "AttributeError")
    /\ UNCHANGED builderVars
    /\ UNCHANGED <<runVars, portVars, memVars, concVars, idVars, kahnVars,
                 nsVars>>

\* ------------------------------------------------------------------------
\* Trenex.connect_plugin_output_to_input
\* ------------------------------------------------------------------------
\* the recorded connections of t as a flat sequence of edges, in the order
\* the nested loops of build_trnx and _compute_execution_order visit them
RECURSIVE FlatConns(_, _, _)
FlatConns(op, oport, conns) ==
    IF conns = <<>> THEN <<>>
    ELSE <<[out_plugin |-> op, out_port |-> oport,
            in_plugin |-> Head(conns)[1], in_port |-> Head(conns)[2]]>>
         \o FlatConns(op, oport, Tail(conns))

RECURSIVE FlatPorts(_, _)
FlatPorts(op, portItems) ==
    IF portItems = <<>> THEN <<>>
    ELSE FlatConns(op, Head(portItems).key, Head(portItems).val)
         \o FlatPorts(op, Tail(portItems))

RECURSIVE FlatPlugins(_)
FlatPlugins(pluginItems) ==
    IF pluginItems = <<>> THEN <<>>
    ELSE FlatPorts(Head(pluginItems).key, Head(pluginItems).val)
         \o FlatPlugins(Tail(pluginItems))

Edges(t) == FlatPlugins(_plugin_connections[t])

EdgeSet(t) == {Edges(t)[j] : j \in 1..Len(Edges(t))}

RECURSIVE SumLen(_)
SumLen(S) ==
    IF S = {} THEN 0
    ELSE LET t == CHOOSE x \in S : TRUE
         IN  Len(Edges(t)) + SumLen(S \ {t})

EdgeCount == SumLen(TrnxNames)

\* lines 74-78: create the missing dict entries, then append to the list
AddConnection(conns, output_plugin, output_port, input_plugin, input_port) ==
    LET c1 == IF HasKey(conns, output_plugin) THEN conns
              ELSE SetItem(conns, output_plugin, <<>>)
        pp == Lookup(c1, output_plugin)
        p1 == IF HasKey(pp, output_port) THEN pp
              ELSE SetItem(pp, output_port, <<>>)
        p2 == SetItem(p1, output_port,
                      Append(Lookup(p1, output_port), <<input_plugin, input_port>>))
    IN  SetItem(c1, output_plugin, p2)

\* connect with the producer's entry (lines 74-75) created before the
\* consumer is looked up (lines 72-73)
connect_plugin_output_to_input_eager(output_plugin, output_port, input_plugin, input_port) ==
    /\ running = None
    /\ EdgeCount < MaxEdges
    /\ IF _active_trnx = None
       THEN /\ ret' = Ret("connect", "ValueError")
            /\ UNCHANGED builderVars
       ELSE LET t == _active_trnx IN
            IF ~HasKey(_loaded_plugins[t], output_plugin)
            THEN /\ ret' = Ret("connect", "ValueError")
                 /\ UNCHANGED builderVars
            ELSE IF ~HasKey(_loaded_plugins[t], input_plugin)
            THEN /\ ret' = Ret("connect", "ValueError")
                 /\ _plugin_connections' =
                      [_plugin_connections EXCEPT ![t] =
                          IF HasKey(@, output_plugin) THEN @
                          ELSE SetItem(@, output_plugin, <<>>)]
                 /\ UNCHANGED <<_trnxs, _active_trnx, _loaded_plugins,
                                execution_order, _plugins, plugins, _is_built,
                                insts, ports, shm>>
            ELSE /\ _plugin_connections' =
                      [_plugin_connections EXCEPT ![t] =
                          AddConnection(@, output_plugin, output_port,
                                        input_plugin, input_port)]
                 /\ ret' = Ret("connect", "ok")
                 /\ UNCHANGED <<_trnxs, _active_trnx, _loaded_plugins,
                                execution_order, _plugins, plugins, _is_built,
                                insts, ports, shm>>
    /\ UNCHANGED <<runVars, portVars, memVars, concVars, idVars, kahnVars,
                 nsVars>>

connect_plugin_output_to_input(output_plugin, output_port, input_plugin, input_port) ==
    /\ running = None
    /\ EdgeCount < MaxEdges
    /\ IF _active_trnx = None
       THEN /\ ret' = Ret("connect", "ValueError")
            /\ UNCHANGED builderVars
       ELSE LET t == _active_trnx IN
            IF ~HasKey(_loaded_plugins[t], output_plugin)
            THEN /\ ret' = Ret("connect", "ValueError")
                 /\ UNCHANGED builderVars
            ELSE IF ~HasKey(_loaded_plugins[t], input_plugin)
            THEN /\ ret' = Ret("connect", "ValueError")
                 /\ UNCHANGED builderVars
            ELSE /\ _plugin_connections' =
                      [_plugin_connections EXCEPT ![t] =
                          AddConnection(@, output_plugin, output_port,
                                        input_plugin, input_port)]
                 /\ ret' = Ret("connect", "ok")
                 /\ UNCHANGED <<_trnxs, _active_trnx, _loaded_plugins,
                                execution_order, _plugins, plugins, _is_built,
                                insts, ports, shm>>
    /\ UNCHANGED <<runVars, portVars, memVars, concVars, idVars, kahnVars,
                 nsVars>>

\* the wiring commands of the model
ConnectArgs ==
    (Classes \X {"o"} \X {"A", "B"} \X InPortNames) \cup {<<"A", "x", "B", "i">>}

\* ------------------------------------------------------------------------
\* Plugin.set_input_port / set_output_port / verify
\* (src/core/plugin/plugin_base.py); a result is the plugin and the error
\* ------------------------------------------------------------------------
\* set_input_port without the test of line 30
set_input_port_unchecked(pl, input_name, shm_port) ==
    [err |-> "ok", plugin |-> [pl EXCEPT !._inputs[input_name] = shm_port]]

set_input_port(pl, input_name, shm_port) ==
    IF input_name \in DOMAIN RequiredInputs(pl.cls)
    THEN [err |-> "ok",
          plugin |-> [pl EXCEPT !._inputs[input_name] = shm_port]]
    ELSE [err |-> "ValueError: input not defined", plugin |-> pl]

set_output_port(pl, output_name, shm_port) ==
    IF output_name \in DOMAIN ProvidedOutputs(pl.cls)
    THEN [err |-> "ok",
          plugin |-> [pl EXCEPT !._outputs[output_name] = shm_port]]
    ELSE [err |-> "ValueError: output not defined", plugin |-> pl]

\* verify that also wants every declared output bound
verify_outputs(pl) ==
    /\ \A port \in DOMAIN RequiredInputs(pl.cls) : pl._inputs[port] # NoPort
    /\ \A port \in DOMAIN ProvidedOutputs(pl.cls) : pl._outputs[port] # NoPort

\* TRUE when verify() returns, FALSE when it raises ValueError
verify(pl) ==
    \A port \in DOMAIN RequiredInputs(pl.cls) : pl._inputs[port] # NoPort

\* ------------------------------------------------------------------------
\* SharedMemoryPort.__init__ (src/trenex/core/memory/shared_memory_port.py):
\* attach to the OS block of that name, or create it
\* ------------------------------------------------------------------------
SharedMemoryPort(name, shape, dtype) ==
    [name |-> name, shape |-> shape, dtype |-> dtype]

\* ------------------------------------------------------------------------
\* Trenex.build_trnx, lines 129-142: the port set-up loops.  The loops carry
\* b = [insts, ports, shm, err] and stop at the first exception, keeping
\* what was done before it.
\* ------------------------------------------------------------------------
\* lines 139-141: bind the port to every consumer of the list
RECURSIVE BindConsumers(_, _, _, _)
BindConsumers(b, loaded, connections, port) ==
    IF connections = <<>> \/ b.err # "ok" THEN b
    ELSE LET in_plugin == Head(connections)[1]
             in_port == Head(connections)[2]
             inst == Lookup(loaded, in_plugin)
             r == set_input_port(b.insts[inst], in_port, port)
         IN  BindConsumers([b EXCEPT !.insts[inst] = r.plugin, !.err = r.err],
                           loaded, Tail(connections), port)

\* BuildPorts with the port named by the output port alone
RECURSIVE BuildPorts_portname(_, _, _, _)
BuildPorts_portname(b, loaded, out_plugin, portItems) ==
    IF portItems = <<>> \/ b.err # "ok" THEN b
    ELSE LET out_port == Head(portItems).key
             inst == Lookup(loaded, out_plugin)
             provided == ProvidedOutputs(b.insts[inst].cls)
         IN  IF out_port \notin DOMAIN provided
             THEN [b EXCEPT !.err = "KeyError"]
             ELSE LET port_name == out_port
                      obj == SharedMemoryPort(port_name, provided[out_port].shape,
                                              provided[out_port].dtype)
                      port == Len(b.ports) + 1
                      r == set_output_port(b.insts[inst], out_port, port)
                      b1 == [b EXCEPT !.ports = Append(@, obj),
                                      !.shm = @ \cup {port_name},
                                      !.insts[inst] = r.plugin,
                                      !.err = r.err]
                      b2 == BindConsumers(b1, loaded, Head(portItems).val, port)
                  IN  BuildPorts_portname(b2, loaded, out_plugin, Tail(portItems))

\* lines 132-141: one port per output port of out_plugin that has a list
RECURSIVE BuildPorts(_, _, _, _)
BuildPorts(b, loaded, out_plugin, portItems) ==
    IF portItems = <<>> \/ b.err # "ok" THEN b
    ELSE LET out_port == Head(portItems).key
             inst == Lookup(loaded, out_plugin)
             provided == ProvidedOutputs(b.insts[inst].cls)
         IN  IF out_port \notin DOMAIN provided
             THEN [b EXCEPT !.err = "KeyError"]
             ELSE LET port_name == out_plugin \o "_" \o out_port
                      obj == SharedMemoryPort(port_name, provided[out_port].shape,
                                              provided[out_port].dtype)
                      port == Len(b.ports) + 1
                      r == set_output_port(b.insts[inst], out_port, port)
                      b1 == [b EXCEPT !.ports = Append(@, obj),
                                      !.shm = @ \cup {port_name},
                                      !.insts[inst] = r.plugin,
                                      !.err = r.err]
                      b2 == BindConsumers(b1, loaded, Head(portItems).val, port)
                  IN  BuildPorts(b2, loaded, out_plugin, Tail(portItems))

\* lines 129-141
RECURSIVE BuildPlugins(_, _, _)
BuildPlugins(b, loaded, pluginItems) ==
    IF pluginItems = <<>> \/ b.err # "ok" THEN b
    ELSE BuildPlugins(BuildPorts(b, loaded, Head(pluginItems).key,
                                 Head(pluginItems).val),
                      loaded, Tail(pluginItems))

\* ------------------------------------------------------------------------
\* Trenex._compute_execution_order
\* ------------------------------------------------------------------------
\* BuildGraph with the edge stored backwards (the consumer as the key)
RECURSIVE BuildGraph_reversed(_, _)
BuildGraph_reversed(g, edges) ==
    IF edges = <<>> THEN g
    ELSE LET e == Head(edges)
         IN  IF e.out_plugin \notin g.dependency_graph[e.in_plugin]
             THEN BuildGraph_reversed(
                    [g EXCEPT !.dependency_graph[e.in_plugin] = @ \cup {e.out_plugin},
                              !.in_degree[e.out_plugin] = @ + 1],
                    Tail(edges))
             ELSE BuildGraph_reversed(g, Tail(edges))

\* BuildGraph without the membership test of line 96: a repeated edge
\* raises the in-degree again
RECURSIVE BuildGraph_nodedup(_, _)
BuildGraph_nodedup(g, edges) ==
    IF edges = <<>> THEN g
    ELSE LET e == Head(edges)
         IN  BuildGraph_nodedup(
               [g EXCEPT !.dependency_graph[e.out_plugin] = @ \cup {e.in_plugin},
                         !.in_degree[e.in_plugin] = @ + 1],
               Tail(edges))

\* lines 93-98: dependency_graph and in_degree, edge by edge
RECURSIVE BuildGraph(_, _)
BuildGraph(g, edges) ==
    IF edges = <<>> THEN g
    ELSE LET e == Head(edges)
         IN  IF e.in_plugin \notin g.dependency_graph[e.out_plugin]
             THEN BuildGraph(
                    [g EXCEPT !.dependency_graph[e.out_plugin] = @ \cup {e.in_plugin},
                              !.in_degree[e.in_plugin] = @ + 1],
                    Tail(edges))
             ELSE BuildGraph(g, Tail(edges))

\* lines 89-98
Graph(loaded, edges) ==
    BuildGraph([dependency_graph |-> [p \in KeySet(loaded) |-> {}],
                in_degree |-> [p \in KeySet(loaded) |-> 0]],
               edges)

\* line 102: the plugins of in-degree 0, in dict order
RECURSIVE ZeroInDegree(_, _)
ZeroInDegree(keys, in_degree) ==
    IF keys = <<>> THEN <<>>
    ELSE (IF in_degree[Head(keys)] = 0 THEN <<Head(keys)>> ELSE <<>>)
         \o ZeroInDegree(Tail(keys), in_degree)

\* VisitDependents without the test of line 108: every dependent is queued
RECURSIVE VisitDependents_always(_, _)
VisitDependents_always(k, dependents) ==
    IF dependents = <<>> THEN k
    ELSE LET dependent == Head(dependents)
             d == k.in_degree[dependent] - 1
         IN  VisitDependents_always(
               [queue |-> Append(k.queue, dependent),
                in_degree |-> [k.in_degree EXCEPT ![dependent] = d]],
               Tail(dependents))

\* lines 106-109: k = [queue, in_degree], dependents in iteration order
RECURSIVE VisitDependents(_, _)
VisitDependents(k, dependents) ==
    IF dependents = <<>> THEN k
    ELSE LET dependent == Head(dependents)
             d == k.in_degree[dependent] - 1
         IN  VisitDependents(
               [queue |-> IF d = 0 THEN Append(k.queue, dependent) ELSE k.queue,
                in_degree |-> [k.in_degree EXCEPT ![dependent] = d]],
               Tail(dependents))

\* lines 103-109: iter[p] is the order in which the set dependency_graph[p]
\* is iterated
RECURSIVE KahnLoop(_, _, _, _)
KahnLoop(queue, sorted_plugins, in_degree, iter) ==
    IF queue = <<>> THEN sorted_plugins
    ELSE LET current == Head(queue)
             k == VisitDependents([queue |-> Tail(queue), in_degree |-> in_degree],
                                  iter[current])
         IN  KahnLoop(k.queue, Append(sorted_plugins, current), k.in_degree, iter)

\* every order in which a set can be iterated
RECURSIVE SetOrders(_)
SetOrders(S) ==
    IF S = {} THEN {<<>>}
    ELSE UNION {{<<x>> \o q : q \in SetOrders(S \ {x})} : x \in S}

\* the iteration orders of the sets of dependency_graph: Python fixes none
\* for a set of strings (the hash of a string changes from run to run)
IterOrders(dependency_graph) ==
    LET all == UNION {SetOrders(dependency_graph[p]) : p \in DOMAIN dependency_graph}
    IN  {f \in [DOMAIN dependency_graph -> all] :
            \A p \in DOMAIN dependency_graph : f[p] \in SetOrders(dependency_graph[p])}

\* compute_execution_order without the length test of line 110
compute_execution_order_nocheck(loaded, edges, iter) ==
    LET g == Graph(loaded, edges)
    IN  [err |-> "ok",
         order |-> KahnLoop(ZeroInDegree(Keys(loaded), g.in_degree),
                            <<>>, g.in_degree, iter)]

\* lines 100-114: the order, or the cycle error
compute_execution_order(loaded, edges, iter) ==
    LET g == Graph(loaded, edges)
        sorted_plugins == KahnLoop(ZeroInDegree(Keys(loaded), g.in_degree),
                                   <<>>, g.in_degree, iter)
    IN  IF Len(sorted_plugins) # Len(loaded)
        THEN [err |-> "RuntimeError: cycle detected", order |-> sorted_plugins]
        ELSE [err |-> "ok", order |-> sorted_plugins]

\* ------------------------------------------------------------------------
\* Trenex.build_trnx
\* ------------------------------------------------------------------------
\* lines 146-149
OrderedPlugins(loaded, names) ==
    [j \in 1..Len(names) |-> Lookup(loaded, names[j])]

\* lines 153-154: verify() of every plugin of the list passes
AllVerify(instances, list) ==
    \A j \in 1..Len(list) : verify(instances[list[j]])

build_trnx(iter) ==
    /\ running = None
    /\ Len(ports) < MaxPorts
    /\ IF _active_trnx = None
       THEN /\ ret' = Ret("build_trnx", "ValueError: no active TRNX")
            /\ UNCHANGED <<_trnxs, _active_trnx, _loaded_plugins,
                           _plugin_connections, execution_order, _plugins,
                           plugins, _is_built, insts, ports, shm>>
       ELSE LET t == _active_trnx
                loaded == _loaded_plugins[t]
                b == BuildPlugins([insts |-> insts, ports |-> ports,
                                   shm |-> shm, err |-> "ok"],
                                  loaded, _plugin_connections[t])
                o == compute_execution_order(loaded, Edges(t), iter)
                ordered_plugins == OrderedPlugins(loaded, o.order)
            IN  /\ insts' = b.insts
                /\ ports' = b.ports
                /\ shm' = b.shm
                /\ UNCHANGED <<_trnxs, _active_trnx, _loaded_plugins,
                               _plugin_connections, _plugins>>
                /\ IF b.err # "ok"
                   THEN /\ ret' = Ret("build_trnx", b.err)
                        /\ UNCHANGED <<execution_order, plugins, _is_built>>
                   ELSE IF o.err # "ok"
                   THEN /\ ret' = Ret("build_trnx", o.err)
                        /\ UNCHANGED <<execution_order, plugins, _is_built>>
                   ELSE /\ execution_order' = o.order
                        /\ plugins' = [plugins EXCEPT ![t] = Attr(ordered_plugins)]
                        /\ IF AllVerify(b.insts, ordered_plugins)
                           THEN /\ _is_built' = [_is_built EXCEPT ![t] = TRUE]
                                /\ ret' = Ret("build_trnx", "ok")
                           ELSE /\ ret' = Ret("build_trnx", "ValueError: not all required inputs set")
                                /\ UNCHANGED _is_built
    /\ UNCHANGED <<runVars, portVars, memVars, concVars, idVars, kahnVars,
                 nsVars>>

\* build_trnx with every iteration order the sets of the graph can have
Build ==
    \E iter \in IterOrders(
                  IF _active_trnx = None THEN <<>>
                  ELSE Graph(_loaded_plugins[_active_trnx],
                             Edges(_active_trnx)).dependency_graph) :
        build_trnx(iter)

\* ------------------------------------------------------------------------
\* TRNX.run (src/trenex/trnx.py), called on the TRNX that get_trnx returns
\* ------------------------------------------------------------------------
\* run without the test of _is_built (lines 17-18)
run_unchecked ==
    /\ running = None
    /\ IF _active_trnx = None
       THEN /\ ret' = Ret("get_trnx", "ValueError")
            /\ UNCHANGED <<running, runIdx>>
       ELSE /\ running' = _active_trnx
            /\ runIdx' = 1
            /\ ret' = Ret("run", "running")
    /\ UNCHANGED <<tickLog, cancelled>>
    /\ UNCHANGED <<builderVars, portVars, memVars, concVars, idVars, kahnVars,
                 nsVars>>

\* lines 15-18 after Trenex.get_trnx
run ==
    /\ running = None
    /\ IF _active_trnx = None
       THEN /\ ret' = Ret("get_trnx", "ValueError")
            /\ UNCHANGED <<running, runIdx>>
       ELSE IF ~_is_built[_active_trnx]
       THEN /\ ret' = Ret("run", "ValueError")
            /\ UNCHANGED <<running, runIdx>>
       ELSE /\ running' = _active_trnx
            /\ runIdx' = 1
            /\ ret' = Ret("run", "running")
    /\ UNCHANGED <<tickLog, cancelled>>
    /\ UNCHANGED <<builderVars, portVars, memVars, concVars, idVars, kahnVars,
                 nsVars>>

\* lines 19-22: one pass of the body of the for loop.  process() returns or
\* raises; nothing catches what it raises, so run() ends with it.
process(raises) ==
    /\ running # None
    /\ LET list == _plugins[running] IN
       IF list = <<>>
       THEN \* "while True" over an empty list
            UNCHANGED <<running, runIdx, tickLog, cancelled, ret>>
       ELSE IF raises
       THEN /\ running' = None
            /\ runIdx' = 0
            /\ tickLog' = <<>>
            /\ cancelled' = FALSE
            /\ ret' = Ret("run", "PluginError")
       ELSE /\ tickLog' = (IF runIdx = 1 THEN <<>> ELSE tickLog) \o <<list[runIdx]>>
            /\ runIdx' = (runIdx % Len(list)) + 1
            /\ UNCHANGED <<running, cancelled, ret>>
    /\ UNCHANGED <<builderVars, portVars, memVars, concVars, idVars, kahnVars,
                 nsVars>>

\* a stop of the executing run() is requested (a stop flag is raised): the
\* loop of lines 19-22 tests nothing, so the request changes nothing else
cancel ==
    /\ running # None
    /\ ~cancelled
    /\ cancelled' = TRUE
    /\ UNCHANGED <<running, runIdx, tickLog, ret>>
    /\ UNCHANGED <<builderVars, portVars, memVars, concVars, idVars, kahnVars,
                 nsVars>>

Next ==
    \/ \E name \in MainTrnxNames : start_new_trnx(name)
    \/ \E name \in MainTrnxNames : set_active_trnx(name)
    \/ \E path \in Paths : load_plugin(path)
    \/ \E c \in Classes : unload_plugin(c)
    \/ \E a \in ConnectArgs :
          connect_plugin_output_to_input(a[1], a[2], a[3], a[4])
    \/ Build
    \/ run
    \/ \E raises \in BOOLEAN : process(raises)
    \/ cancel

Spec == Init /\ [][Next]_vars

\* ------------------------------------------------------------------------
\* SpecDown: Spec with the end of the graphs.  Trenex and TRNX define no
\* shutdown, teardown, close or __del__: the graphs end when the program
\* drops the builder with its TRNX objects, plugins and port objects (a new
\* Trenex() may follow).  Nothing on that path calls SharedMemoryPort.unlink;
\* a dropped port object closes its mapping and the OS keeps the name.
\* ------------------------------------------------------------------------
shutdown ==
    /\ running = None
    /\ _trnxs # {}
    /\ _trnxs' = {}
    /\ _active_trnx' = None
    /\ _loaded_plugins' = [t \in TrnxNames |-> <<>>]
    /\ _plugin_connections' = [t \in TrnxNames |-> <<>>]
    /\ execution_order' = <<>>
    /\ _plugins' = [t \in TrnxNames |-> <<>>]
    /\ plugins' = [t \in TrnxNames |-> NoAttr]
    /\ _is_built' = [t \in TrnxNames |-> FALSE]
    /\ ret' = Ret("shutdown", "ok")
    /\ UNCHANGED <<insts, ports, shm>>
    /\ UNCHANGED <<runVars, portVars, memVars, concVars, idVars, kahnVars,
                 nsVars>>

NextDown ==
    \/ Next
    \/ shutdown

SpecDown == Init /\ [][NextDown]_vars

\* ------------------------------------------------------------------------
\* SpecBuild: build_trnx applied to every wiring of up to MaxWireEdges
\* connections over the three classes, for every load order.  A state of
\* InitBuild is the state after start_new_trnx("t1"), the load_plugin calls
\* of the load order and the connect calls of the wiring.
\* ------------------------------------------------------------------------
\* the connections whose ports both plugins declare
WireArgs == Classes \X {"o"} \X {"B", "C"} \X InPortNames

LoadOrders == UNION {SetOrders(S) : S \in SUBSET Classes}

Wirings(names) ==
    UNION {[1..n -> {a \in WireArgs : a[1] \in names /\ a[3] \in names}] :
             n \in 0..MaxWireEdges}

\* the connect calls of a wiring, in order
RECURSIVE Wire(_, _)
Wire(conns, wiring) ==
    IF wiring = <<>> THEN conns
    ELSE Wire(AddConnection(conns, Head(wiring)[1], Head(wiring)[2],
                            Head(wiring)[3], Head(wiring)[4]),
              Tail(wiring))

InitBuild ==
    \E order \in LoadOrders :
      \E wiring \in Wirings({order[j] : j \in 1..Len(order)}) :
        /\ _trnxs = {"t1"}
        /\ _active_trnx = "t1"
        /\ _loaded_plugins =
             [t \in TrnxNames |->
                IF t = "t1"
                THEN [j \in 1..Len(order) |-> [key |-> order[j], val |-> j]]
                ELSE <<>>]
        /\ _plugin_connections =
             [t \in TrnxNames |-> IF t = "t1" THEN Wire(<<>>, wiring) ELSE <<>>]
        /\ execution_order = <<>>
        /\ _plugins =
             [t \in TrnxNames |->
                IF t = "t1" THEN [j \in 1..Len(order) |-> j] ELSE <<>>]
        /\ plugins = [t \in TrnxNames |-> NoAttr]
        /\ _is_built = [t \in TrnxNames |-> FALSE]
        /\ insts = [j \in 1..Len(order) |-> NewPlugin(order[j])]
        /\ ports = <<>>
        /\ shm = {}
        /\ ret = IF wiring # <<>> THEN Ret("connect", "ok")
                 ELSE IF order # <<>> THEN Ret("load_plugin", "ok")
                 ELSE Ret("start_new_trnx", "ok")
        /\ running = None
        /\ runIdx = 0
        /\ tickLog = <<>>
        /\ cancelled = FALSE
        /\ sm_port = NoPort
        /\ array = <<>>
        /\ pret = PRet("init", "ok", NoTensor)
        /\ NoMem
        /\ NoConc
        /\ NoIds
        /\ NoKahn
        /\ NoNs
    /\ NoMem
    /\ NoConc
    /\ NoIds
    /\ NoKahn
    /\ NoNs

NextBuild == Build

SpecBuild == InitBuild /\ [][NextBuild]_vars

\* ------------------------------------------------------------------------
\* SpecMulti: the builder commands with two graph names, "t1" and "t2",
\* the classes A and B and the one connection A.o -> B.i
\* ------------------------------------------------------------------------
MultiPaths == {"A", "B"}

MultiConnectArgs == {<<"A", "o", "B", "i">>}

NextMulti ==
    \/ \E name \in TrnxNames : start_new_trnx(name)
    \/ \E name \in TrnxNames : set_active_trnx(name)
    \/ \E path \in MultiPaths : load_plugin(path)
    \/ \E a \in MultiConnectArgs :
          connect_plugin_output_to_input(a[1], a[2], a[3], a[4])
    \/ Build

SpecMulti == Init /\ [][NextMulti]_vars

\* ------------------------------------------------------------------------
\* SpecAlias: build_trnx on graphs over the classes F, F_b, B and C.  The
\* region of an output is named f"{out_plugin}_{out_port}" (line 135), and
\* SharedMemoryPort.__init__ attaches to the block of that name when there
\* is one (shared_memory_port.py, line 33).
\* ------------------------------------------------------------------------
\* the state after start_new_trnx("t1"), the load_plugin calls of the load
\* order and the connect calls of the wiring
BuildStart(order, wiring) ==
    /\ _trnxs = {"t1"}
    /\ _active_trnx = "t1"
    /\ _loaded_plugins =
         [t \in TrnxNames |->
            IF t = "t1"
            THEN [j \in 1..Len(order) |-> [key |-> order[j], val |-> j]]
            ELSE <<>>]
    /\ _plugin_connections =
         [t \in TrnxNames |-> IF t = "t1" THEN Wire(<<>>, wiring) ELSE <<>>]
    /\ execution_order = <<>>
    /\ _plugins =
         [t \in TrnxNames |->
            IF t = "t1" THEN [j \in 1..Len(order) |-> j] ELSE <<>>]
    /\ plugins = [t \in TrnxNames |-> NoAttr]
    /\ _is_built = [t \in TrnxNames |-> FALSE]
    /\ insts = [j \in 1..Len(order) |-> NewPlugin(order[j])]
    /\ ports = <<>>
    /\ shm = {}
    /\ ret = IF wiring # <<>> THEN Ret("connect", "ok")
             ELSE IF order # <<>> THEN Ret("load_plugin", "ok")
             ELSE Ret("start_new_trnx", "ok")
    /\ running = None
    /\ runIdx = 0
    /\ tickLog = <<>>
    /\ cancelled = FALSE
    /\ sm_port = NoPort
    /\ array = <<>>
    /\ pret = PRet("init", "ok", NoTensor)
    /\ NoMem
    /\ NoConc
    /\ NoIds
    /\ NoNs

AliasClasses == AliasSources \cup {"B", "C"}

\* the connections whose ports both plugins declare
AliasWireArgs ==
    {<<"F", "b_p">>, <<"F_b", "p">>, <<"B", "o">>}
      \X {<<"B", "i">>, <<"C", "i">>}

InitAlias ==
    \E order \in UNION {SetOrders(S) : S \in SUBSET AliasClasses} :
      \E n \in 0..MaxWireEdges :
        \E w \in [1..n -> {a \in AliasWireArgs :
                              /\ a[1][1] \in {order[j] : j \in 1..Len(order)}
                              /\ a[2][1] \in {order[j] : j \in 1..Len(order)}}] :
          /\ BuildStart(order, [j \in 1..n |-> <<w[j][1][1], w[j][1][2],
                                                  w[j][2][1], w[j][2][2]>>])
          /\ NoKahn

SpecAlias == InitAlias /\ [][NextBuild]_vars

\* ------------------------------------------------------------------------
\* SpecKahn: _compute_execution_order one iteration of its while loop at a
\* time, on every wiring of SpecBuild, the cyclic ones included
\* ------------------------------------------------------------------------
\* lines 89-102: the graph, the in-degrees and the first queue
InitKahn ==
    \E order \in LoadOrders :
      \E wiring \in Wirings({order[j] : j \in 1..Len(order)}) :
        /\ BuildStart(order, wiring)
        /\ LET loaded == _loaded_plugins["t1"]
               g == Graph(loaded, Edges("t1"))
           IN  kahn = [pc |-> "while",
                       dependency_graph |-> g.dependency_graph,
                       in_degree |-> g.in_degree,
                       queue |-> ZeroInDegree(Keys(loaded), g.in_degree),
                       sorted_plugins |-> <<>>]

\* lines 103-109: one iteration of "while queue", the set of dependents
\* iterated in the order dependents
kahn_iteration(dependents) ==
    /\ kahn.pc = "while"
    /\ kahn.queue # <<>>
    /\ LET current == Head(kahn.queue)
           k == VisitDependents([queue |-> Tail(kahn.queue),
                                 in_degree |-> kahn.in_degree],
                                dependents)
       IN  /\ dependents \in SetOrders(kahn.dependency_graph[current])
           /\ kahn' = [kahn EXCEPT
                         !.queue = k.queue,
                         !.in_degree = k.in_degree,
                         !.sorted_plugins = Append(@, current)]
    /\ UNCHANGED <<builderVars, ret, runVars, portVars, memVars, concVars,
                   idVars, nsVars>>

\* lines 110-114: the loop is left; the cycle error, or the order is stored
kahn_exit ==
    /\ kahn.pc = "while"
    /\ kahn.queue = <<>>
    /\ IF Len(kahn.sorted_plugins) # Len(_loaded_plugins["t1"])
       THEN /\ kahn' = [kahn EXCEPT !.pc = "RuntimeError: cycle detected"]
            /\ UNCHANGED execution_order
       ELSE /\ kahn' = [kahn EXCEPT !.pc = "return"]
            /\ execution_order' = kahn.sorted_plugins
    /\ UNCHANGED <<_trnxs, _active_trnx, _loaded_plugins, _plugin_connections,
                   _plugins, plugins, _is_built, insts, ports, shm>>
    /\ UNCHANGED <<ret, runVars, portVars, memVars, concVars, idVars, nsVars>>

NextKahn ==
    \/ \E dependents \in LoadOrders : kahn_iteration(dependents)
    \/ kahn_exit

\* the method runs to its end once called: its steps are not held back
SpecKahn == InitKahn /\ [][NextKahn]_vars /\ WF_vars(NextKahn)

\* ------------------------------------------------------------------------
\* SpecPort: one SharedMemoryPort (src/trenex/core/memory/shared_memory_port.py)
\* and the write and read calls on it.  An array is its shape, its dtype
\* and its elements in C order.
\* ------------------------------------------------------------------------
Shapes == {<<n>> : n \in 1..MaxDim} \cup {<<1, n>> : n \in 1..MaxDim}
DTypes == {"f64", "i64"}
Elems == {0, 1}

\* np.prod(shape)
RECURSIVE Prod(_)
Prod(shape) == IF shape = <<>> THEN 1 ELSE Head(shape) * Prod(Tail(shape))

Tensors ==
    UNION {[shape : {sh}, dtype : DTypes, data : [1..Prod(sh) -> Elems]] :
             sh \in Shapes}

\* the shape without its leading dimensions of extent 1
RECURSIVE StripOnes(_)
StripOnes(shape) ==
    IF Len(shape) > 1 /\ Head(shape) = 1 THEN StripOnes(Tail(shape)) ELSE shape

\* np.copyto(self.array, data), line 65: casting "same_kind", the data
\* broadcast to the shape of the view; the view keeps its shape and dtype
copyto(p, arr, data) ==
    IF data.dtype = "f64" /\ p.dtype = "i64"
    THEN [err |-> "TypeError", array |-> arr]
    ELSE IF StripOnes(data.shape) = StripOnes(p.shape)
    THEN [err |-> "ok", array |-> data.data]
    ELSE IF Prod(data.shape) = 1
    THEN [err |-> "ok", array |-> [j \in 1..Prod(p.shape) |-> data.data[1]]]
    ELSE [err |-> "ValueError: could not broadcast", array |-> arr]

\* write with "and" for the "or" of line 61
write_and(data) ==
    /\ IF data.shape # sm_port.shape /\ data.dtype # sm_port.dtype
       THEN /\ pret' = PRet("write", "ValueError", data)
            /\ UNCHANGED array
       ELSE LET r == copyto(sm_port, array, data)
            IN  /\ array' = r.array
                /\ pret' = PRet("write", r.err, data)
    /\ UNCHANGED sm_port
    /\ UNCHANGED <<builderVars, ret, runVars, memVars, concVars, idVars, kahnVars,
                 nsVars>>

\* SharedMemoryPort.write, lines 51-65
write(data) ==
    /\ IF data.shape # sm_port.shape \/ data.dtype # sm_port.dtype
       THEN /\ pret' = PRet("write", "ValueError", data)
            /\ UNCHANGED array
       ELSE LET r == copyto(sm_port, array, data)
            IN  /\ array' = r.array
                /\ pret' = PRet("write", r.err, data)
    /\ UNCHANGED sm_port
    /\ UNCHANGED <<builderVars, ret, runVars, memVars, concVars, idVars, kahnVars,
                 nsVars>>

\* SharedMemoryPort.read, lines 68-76: a copy of the view
read ==
    /\ pret' = PRet("read", "ok",
                    [shape |-> sm_port.shape, dtype |-> sm_port.dtype,
                     data |-> array])
    /\ UNCHANGED <<sm_port, array>>
    /\ UNCHANGED <<builderVars, ret, runVars, memVars, concVars, idVars, kahnVars,
                 nsVars>>

\* a port constructed when no block of its name exists: lines 36-40, the
\* block created and filled with zeros
InitPort ==
    /\ _trnxs = {}
    /\ _active_trnx = None
    /\ _loaded_plugins = [t \in TrnxNames |-> <<>>]
    /\ _plugin_connections = [t \in TrnxNames |-> <<>>]
    /\ execution_order = <<>>
    /\ _plugins = [t \in TrnxNames |-> <<>>]
    /\ plugins = [t \in TrnxNames |-> NoAttr]
    /\ _is_built = [t \in TrnxNames |-> FALSE]
    /\ insts = <<>>
    /\ ports = <<>>
    /\ shm = {"p"}
    /\ ret = Ret("init", "ok")
    /\ running = None
    /\ runIdx = 0
    /\ tickLog = <<>>
    /\ cancelled = FALSE
    /\ \E sh \in Shapes, dt \in DTypes :
          /\ sm_port = SharedMemoryPort("p", sh, dt)
          /\ array = [j \in 1..Prod(sh) |-> 0]
    /\ pret = PRet("init", "ok", NoTensor)
    /\ NoMem
    /\ NoConc
    /\ NoIds
    /\ NoKahn
    /\ NoNs

NextPort ==
    \/ \E data \in Tensors : write(data)
    \/ read

SpecPort == InitPort /\ [][NextPort]_vars

\* ------------------------------------------------------------------------
\* SpecMem: port objects constructed on one block name, "p", all with the
\* descriptor D1, and the calls write, read and unlink on them, one call at
\* a time.  The OS keeps a block while a port object maps it: unlink removes
\* the name only.
\* ------------------------------------------------------------------------
\* the arrays passed to write: those of two elements, of either dtype and
\* shape
MemArgs == {t \in Tensors : Prod(t.shape) = 2}

\* _initialize_memory, lines 43-48
Zeros(shape) == [j \in 1..Prod(shape) |-> 0]

\* SharedMemoryPort.__init__ that zero-fills the block it attaches to as well
new_port_zero ==
    /\ Len(ports) < MaxHandles
    /\ ports' = Append(ports, SharedMemoryPort("p", D1.shape, D1.dtype))
    /\ IF link # 0
       THEN /\ hblk' = Append(hblk, link)
            /\ mem' = [mem EXCEPT ![link] = Zeros(D1.shape)]
            /\ UNCHANGED <<link, shm>>
       ELSE /\ mem' = Append(mem, Zeros(D1.shape))
            /\ link' = Len(mem) + 1
            /\ hblk' = Append(hblk, Len(mem) + 1)
            /\ shm' = shm \cup {"p"}
    /\ mret' = MRet("new", Len(ports) + 1, "ok", NoTensor)
    /\ UNCHANGED got
    /\ UNCHANGED <<graphVars, ret, runVars, portVars, concVars, idVars, kahnVars,
                 nsVars>>

\* SharedMemoryPort.__init__, lines 15-40: attach to the block of that name
\* (line 33), or create it and fill it with zeros (lines 36-37)
new_port ==
    /\ Len(ports) < MaxHandles
    /\ ports' = Append(ports, SharedMemoryPort("p", D1.shape, D1.dtype))
    /\ IF link # 0
       THEN /\ hblk' = Append(hblk, link)
            /\ UNCHANGED <<mem, link, shm>>
       ELSE /\ mem' = Append(mem, Zeros(D1.shape))
            /\ link' = Len(mem) + 1
            /\ hblk' = Append(hblk, Len(mem) + 1)
            /\ shm' = shm \cup {"p"}
    /\ mret' = MRet("new", Len(ports) + 1, "ok", NoTensor)
    /\ UNCHANGED got
    /\ UNCHANGED <<graphVars, ret, runVars, portVars, concVars, idVars, kahnVars,
                 nsVars>>

\* SharedMemoryPort.write on port object h, lines 51-65
write_at(h, data) ==
    /\ h \in 1..Len(ports)
    /\ IF data.shape # ports[h].shape \/ data.dtype # ports[h].dtype
       THEN /\ mret' = MRet("write", h, "ValueError", data)
            /\ UNCHANGED mem
       ELSE LET r == copyto(ports[h], mem[hblk[h]], data)
            IN  /\ mem' = [mem EXCEPT ![hblk[h]] = r.array]
                /\ mret' = MRet("write", h, r.err, data)
    /\ UNCHANGED <<link, hblk, got, ports, shm>>
    /\ UNCHANGED <<graphVars, ret, runVars, portVars, concVars, idVars, kahnVars,
                 nsVars>>

\* read that returns the array of the read before it, when there is one
read_at_stale(h) ==
    /\ h \in 1..Len(ports)
    /\ LET data == IF got.data # <<>> THEN got.data ELSE mem[hblk[h]]
       IN  /\ mret' = MRet("read", h, "ok",
                           [shape |-> ports[h].shape, dtype |-> ports[h].dtype,
                            data |-> data])
           /\ got' = Copy(data)
    /\ UNCHANGED <<mem, link, hblk, ports, shm>>
    /\ UNCHANGED <<graphVars, ret, runVars, portVars, concVars, idVars, kahnVars,
                 nsVars>>

\* read that returns self.array itself, without the copy() of line 76
read_at_view(h) ==
    /\ h \in 1..Len(ports)
    /\ mret' = MRet("read", h, "ok",
                    [shape |-> ports[h].shape, dtype |-> ports[h].dtype,
                     data |-> mem[hblk[h]]])
    /\ got' = [view |-> TRUE, blk |-> hblk[h], data |-> <<>>]
    /\ UNCHANGED <<mem, link, hblk, ports, shm>>
    /\ UNCHANGED <<graphVars, ret, runVars, portVars, concVars, idVars, kahnVars,
                 nsVars>>

\* SharedMemoryPort.read on port object h, lines 68-76
read_at(h) ==
    /\ h \in 1..Len(ports)
    /\ mret' = MRet("read", h, "ok",
                    [shape |-> ports[h].shape, dtype |-> ports[h].dtype,
                     data |-> mem[hblk[h]]])
    /\ got' = Copy(mem[hblk[h]])
    /\ UNCHANGED <<mem, link, hblk, ports, shm>>
    /\ UNCHANGED <<graphVars, ret, runVars, portVars, concVars, idVars, kahnVars,
                 nsVars>>

\* SharedMemoryPort.unlink on port object h, lines 86-90: SharedMemory.unlink
\* removes the name, and raises FileNotFoundError when no block has it
unlink(h) ==
    /\ h \in 1..Len(ports)
    /\ IF ports[h].name \notin shm
       THEN /\ mret' = MRet("unlink", h, "FileNotFoundError", NoTensor)
            /\ UNCHANGED <<link, shm>>
       ELSE /\ link' = 0
            /\ shm' = shm \ {ports[h].name}
            /\ mret' = MRet("unlink", h, "ok", NoTensor)
    /\ UNCHANGED <<mem, hblk, got, ports>>
    /\ UNCHANGED <<graphVars, ret, runVars, portVars, concVars, idVars, kahnVars,
                 nsVars>>

NextMem ==
    \/ new_port
    \/ \E h \in 1..MaxHandles, data \in MemArgs : write_at(h, data)
    \/ \E h \in 1..MaxHandles : read_at(h)
    \/ \E h \in 1..MaxHandles : unlink(h)

SpecMem == Init /\ [][NextMem]_vars

\* ------------------------------------------------------------------------
\* SpecOut: Plugin._write_output (src/core/plugin/plugin_base.py) on the
\* plugins of the built graph A -> B.  Output "o" of A is bound to the
\* region "A_o"; output "o" of B has no consumer, so build_trnx made no
\* region for it.
\* ------------------------------------------------------------------------
\* the data a plugin passes: an array, or a Python list of two numbers
WriteArgs ==
    MemArgs \cup [shape : {<<2>>}, dtype : {"list"}, data : [1..2 -> Elems]]

\* np.array(data, dtype=expected_dtype), line 58
np_array(data, dtype) == [data EXCEPT !.dtype = dtype]

\* the state after load A, load B, connect(A, "o", B, "i") and build_trnx
InitOut ==
    /\ _trnxs = {"t1"}
    /\ _active_trnx = "t1"
    /\ _loaded_plugins =
         [t \in TrnxNames |->
            IF t = "t1" THEN <<[key |-> "A", val |-> 1], [key |-> "B", val |-> 2]>>
            ELSE <<>>]
    /\ _plugin_connections =
         [t \in TrnxNames |->
            IF t = "t1" THEN Wire(<<>>, <<<<"A", "o", "B", "i">>>>) ELSE <<>>]
    /\ execution_order = <<"A", "B">>
    /\ _plugins = [t \in TrnxNames |-> IF t = "t1" THEN <<1, 2>> ELSE <<>>]
    /\ plugins = [t \in TrnxNames |-> IF t = "t1" THEN Attr(<<1, 2>>) ELSE NoAttr]
    /\ _is_built = [t \in TrnxNames |-> t = "t1"]
    /\ insts = <<[NewPlugin("A") EXCEPT !._outputs["o"] = 1],
                 [NewPlugin("B") EXCEPT !._inputs["i"] = 1]>>
    /\ ports = <<SharedMemoryPort("A_o", D1.shape, D1.dtype)>>
    /\ shm = {"A_o"}
    /\ ret = Ret("build_trnx", "ok")
    /\ running = None
    /\ runIdx = 0
    /\ tickLog = <<>>
    /\ cancelled = FALSE
    /\ sm_port = NoPort
    /\ array = <<>>
    /\ pret = PRet("init", "ok", NoTensor)
    /\ mem = <<Zeros(D1.shape)>>
    /\ link = 1
    /\ hblk = <<1>>
    /\ got = Copy(<<>>)
    /\ mret = MRet("init", 0, "ok", NoTensor)
    /\ NoConc
    /\ NoIds
    /\ NoKahn
    /\ NoNs

\* _write_output without the test of line 53 and the else of line 61
_write_output_strict(j, port_name, data) ==
    /\ j \in 1..Len(insts)
    /\ LET port == insts[j]._outputs[port_name]
           call == <<j, port_name>>
       IN  IF port = NoPort
           THEN /\ mret' = MRet("_write_output", call, "KeyError", data)
                /\ UNCHANGED mem
           ELSE LET arr == IF data.dtype = "list"
                           THEN np_array(data, ports[port].dtype) ELSE data
                IN  IF arr.shape # ports[port].shape
                       \/ arr.dtype # ports[port].dtype
                    THEN /\ mret' = MRet("_write_output", call, "ValueError", data)
                         /\ UNCHANGED mem
                    ELSE LET r == copyto(ports[port], mem[hblk[port]], arr)
                         IN  /\ mem' = [mem EXCEPT ![hblk[port]] = r.array]
                             /\ mret' = MRet("_write_output", call, r.err, data)
    /\ UNCHANGED <<link, hblk, got>>
    /\ UNCHANGED <<builderVars, ret, runVars, portVars, concVars, idVars,
                   kahnVars, nsVars>>

\* Plugin._write_output(port_name, data) of plugin instance j, lines 48-62:
\* the write of SharedMemoryPort (lines 51-65) when the output is bound,
\* a log line otherwise
_write_output(j, port_name, data) ==
    /\ j \in 1..Len(insts)
    /\ LET port == insts[j]._outputs[port_name]
           call == <<j, port_name>>
       IN  IF port = NoPort
           THEN /\ mret' = MRet("_write_output", call, "ok", data)
                /\ UNCHANGED mem
           ELSE LET arr == IF data.dtype = "list"
                           THEN np_array(data, ports[port].dtype) ELSE data
                IN  IF arr.shape # ports[port].shape
                       \/ arr.dtype # ports[port].dtype
                    THEN /\ mret' = MRet("_write_output", call, "ValueError", data)
                         /\ UNCHANGED mem
                    ELSE LET r == copyto(ports[port], mem[hblk[port]], arr)
                         IN  /\ mem' = [mem EXCEPT ![hblk[port]] = r.array]
                             /\ mret' = MRet("_write_output", call, r.err, data)
    /\ UNCHANGED <<link, hblk, got>>
    /\ UNCHANGED <<builderVars, ret, runVars, portVars, concVars, idVars,
                   kahnVars, nsVars>>

NextOut ==
    \E j \in 1..2, port_name \in OutPortNames, data \in WriteArgs :
        _write_output(j, port_name, data)

SpecOut == InitOut /\ [][NextOut]_vars

\* ------------------------------------------------------------------------
\* SpecConc: a writer and a reader inside write() and read() on one block.
\* Two port objects map the block; the writer calls through the first, the
\* reader through the first (a thread that shares the object) or the second
\* (another object constructed on the name, as another process or a second
\* build makes one).  self.lock is made per object (line 29).  np.copyto
\* and array.copy() move element after element, and the other thread runs
\* in between.
\* ------------------------------------------------------------------------
\* the arrays the writer passes: all elements equal
WholeArrays == {[j \in 1..Prod(D1.shape) |-> v] : v \in Elems}

Idle(h, out) == [pc |-> "idle", h |-> h, i |-> 0, data |-> <<>>, out |-> out]

InitConc ==
    /\ _trnxs = {}
    /\ _active_trnx = None
    /\ _loaded_plugins = [t \in TrnxNames |-> <<>>]
    /\ _plugin_connections = [t \in TrnxNames |-> <<>>]
    /\ execution_order = <<>>
    /\ _plugins = [t \in TrnxNames |-> <<>>]
    /\ plugins = [t \in TrnxNames |-> NoAttr]
    /\ _is_built = [t \in TrnxNames |-> FALSE]
    /\ insts = <<>>
    /\ ports = [h \in 1..2 |-> SharedMemoryPort("p", D1.shape, D1.dtype)]
    /\ shm = {"p"}
    /\ ret = Ret("init", "ok")
    /\ running = None
    /\ runIdx = 0
    /\ tickLog = <<>>
    /\ cancelled = FALSE
    /\ sm_port = NoPort
    /\ array = <<>>
    /\ pret = PRet("init", "ok", NoTensor)
    /\ mem = <<Zeros(D1.shape)>>
    /\ link = 1
    /\ hblk = <<1, 1>>
    /\ got = Copy(<<>>)
    /\ mret = MRet("new", 2, "ok", NoTensor)
    /\ lock = <<"free", "free">>
    /\ \E rh \in 1..2 : thr = [w |-> Idle(1, <<>>), r |-> Idle(rh, <<>>)]
    /\ NoIds
    /\ NoKahn
    /\ NoNs

\* write(), lines 61-64: the test passes, "with self.lock" is entered
w_acquire(data) ==
    /\ thr.w.pc = "idle"
    /\ lock[thr.w.h] = "free"
    /\ lock' = [lock EXCEPT ![thr.w.h] = "w"]
    /\ thr' = [thr EXCEPT !.w.pc = "copy", !.w.i = 1, !.w.data = data]
    /\ UNCHANGED <<mem, link, hblk, got, mret>>
    /\ UNCHANGED <<builderVars, ret, runVars, portVars, idVars, kahnVars,
                 nsVars>>

\* write(), line 65: np.copyto stores the next element
w_copy ==
    /\ thr.w.pc = "copy"
    /\ mem' = [mem EXCEPT ![hblk[thr.w.h]][thr.w.i] = thr.w.data[thr.w.i]]
    /\ thr' = IF thr.w.i = Len(thr.w.data)
              THEN [thr EXCEPT !.w.pc = "release"]
              ELSE [thr EXCEPT !.w.i = @ + 1]
    /\ UNCHANGED <<link, hblk, got, mret, lock>>
    /\ UNCHANGED <<builderVars, ret, runVars, portVars, idVars, kahnVars,
                 nsVars>>

\* write(): the with block is left, write returns
w_release ==
    /\ thr.w.pc = "release"
    /\ lock' = [lock EXCEPT ![thr.w.h] = "free"]
    /\ thr' = [thr EXCEPT !.w = Idle(thr.w.h, <<>>)]
    /\ UNCHANGED <<mem, link, hblk, got, mret>>
    /\ UNCHANGED <<builderVars, ret, runVars, portVars, idVars, kahnVars,
                 nsVars>>

\* read(), line 75: "with self.lock" is entered
r_acquire ==
    /\ thr.r.pc = "idle"
    /\ lock[thr.r.h] = "free"
    /\ lock' = [lock EXCEPT ![thr.r.h] = "r"]
    /\ thr' = [thr EXCEPT !.r.pc = "copy", !.r.i = 1, !.r.out = <<>>]
    /\ UNCHANGED <<mem, link, hblk, got, mret>>
    /\ UNCHANGED <<builderVars, ret, runVars, portVars, idVars, kahnVars,
                 nsVars>>

\* read(), line 76: array.copy() loads the next element
r_copy ==
    /\ thr.r.pc = "copy"
    /\ thr' = IF thr.r.i = Len(mem[hblk[thr.r.h]])
              THEN [thr EXCEPT !.r.pc = "release",
                               !.r.out = Append(@, mem[hblk[thr.r.h]][thr.r.i])]
              ELSE [thr EXCEPT !.r.i = @ + 1,
                               !.r.out = Append(@, mem[hblk[thr.r.h]][thr.r.i])]
    /\ UNCHANGED <<mem, link, hblk, got, mret, lock>>
    /\ UNCHANGED <<builderVars, ret, runVars, portVars, idVars, kahnVars,
                 nsVars>>

\* read(): the with block is left, read returns the copy (out)
r_release ==
    /\ thr.r.pc = "release"
    /\ lock' = [lock EXCEPT ![thr.r.h] = "free"]
    /\ thr' = [thr EXCEPT !.r = Idle(thr.r.h, thr.r.out)]
    /\ UNCHANGED <<mem, link, hblk, got, mret>>
    /\ UNCHANGED <<builderVars, ret, runVars, portVars, idVars, kahnVars,
                 nsVars>>

NextConc ==
    \/ \E data \in WholeArrays : w_acquire(data)
    \/ w_copy
    \/ w_release
    \/ r_acquire
    \/ r_copy
    \/ r_release

SpecConc == InitConc /\ [][NextConc]_vars

\* ------------------------------------------------------------------------
\* SpecId: IDGenerator (src/trenex/core/utils/identity.py).  An identifier
\* is the value of uuid.uuid4().hex[:10], one of MaxIds values here.
\* ------------------------------------------------------------------------
Ids == 1..MaxIds
IdObjects == {"None", "obj"}

\* generate_id that returns its first draw without the test of line 29
generate_id_nocheck(new_id, id_object) ==
    /\ _generated_ids' = SetItem(_generated_ids, new_id, id_object)
    /\ iret' = IRet("generate", "ok", new_id)
    /\ UNCHANGED <<builderVars, ret, runVars, portVars, memVars, concVars,
                   kahnVars, nsVars>>

\* IDGenerator.generate_id, lines 15-33: the loop draws again while the
\* draw is a key of the dict; new_id is the draw the call returns
generate_id(new_id, id_object) ==
    /\ ~HasKey(_generated_ids, new_id)
    /\ _generated_ids' = SetItem(_generated_ids, new_id, id_object)
    /\ iret' = IRet("generate", "ok", new_id)
    /\ UNCHANGED <<builderVars, ret, runVars, portVars, memVars, concVars,
                   kahnVars, nsVars>>

\* IDGenerator.register_id, lines 65-84
register_id(identity, id_object) ==
    /\ IF HasKey(_generated_ids, identity)
       THEN /\ iret' = IRet("register", "ValueError", identity)
            /\ UNCHANGED _generated_ids
       ELSE /\ _generated_ids' = SetItem(_generated_ids, identity, id_object)
            /\ iret' = IRet("register", "ok", identity)
    /\ UNCHANGED <<builderVars, ret, runVars, portVars, memVars, concVars,
                   kahnVars, nsVars>>

NextId ==
    \/ \E new_id \in Ids, id_object \in IdObjects : generate_id(new_id, id_object)
    \/ \E identity \in Ids, id_object \in IdObjects : register_id(identity, id_object)

SpecId == Init /\ [][NextId]_vars

\* ------------------------------------------------------------------------
\* SpecNs: one Namespace (src/core/namespace.py) and the calls on it.  The
\* dicts are item sequences in insertion order; a child namespace is a new,
\* empty Namespace.
\* ------------------------------------------------------------------------
\* the names of the calls: two public names and a private one
NsNames == {"a", "b", "_p"}
\* the values of items and attributes
NsValues == {"v", "w"}

\* name.startswith("_")
Private(name) == name \in {"_p"}

\* Namespace(): lines 14-17
NewNamespace == [_children_ns |-> <<>>, _children_items |-> <<>>]

\* del d[k]
DelItem(d, k) == SelectSeq(d, LAMBDA it : it.key # k)

\* lines 21-33
create_namespace(name) ==
    /\ IF HasKey(_children_items, name)
       THEN /\ nret' = NRet("create_namespace", name, "AttributeError")
            /\ UNCHANGED _children_ns
       ELSE /\ _children_ns' =
                 IF ~HasKey(_children_ns, name)
                 THEN SetItem(_children_ns, name, NewNamespace)
                 ELSE _children_ns
            /\ nret' = NRet("create_namespace", name, "ok")
    /\ UNCHANGED <<_children_items, __dict__>>
    /\ UNCHANGED <<builderVars, ret, runVars, portVars, memVars, concVars,
                   idVars, kahnVars>>

\* lines 35-44
remove_namespace(name) ==
    /\ IF ~HasKey(_children_ns, name)
       THEN /\ nret' = NRet("remove_namespace", name, "AttributeError")
            /\ UNCHANGED _children_ns
       ELSE /\ _children_ns' = DelItem(_children_ns, name)
            /\ nret' = NRet("remove_namespace", name, "ok")
    /\ UNCHANGED <<_children_items, __dict__>>
    /\ UNCHANGED <<builderVars, ret, runVars, portVars, memVars, concVars,
                   idVars, kahnVars>>

\* lines 46-56
set_item(name, value) ==
    /\ IF HasKey(_children_ns, name)
       THEN /\ nret' = NRet("set_item", name, "AttributeError")
            /\ UNCHANGED _children_items
       ELSE /\ _children_items' = SetItem(_children_items, name, value)
            /\ nret' = NRet("set_item", name, "ok")
    /\ UNCHANGED <<_children_ns, __dict__>>
    /\ UNCHANGED <<builderVars, ret, runVars, portVars, memVars, concVars,
                   idVars, kahnVars>>

\* lines 69-78
remove_item(name) ==
    /\ IF ~HasKey(_children_items, name)
       THEN /\ nret' = NRet("remove_item", name, "AttributeError")
            /\ UNCHANGED _children_items
       ELSE /\ _children_items' = DelItem(_children_items, name)
            /\ nret' = NRet("remove_item", name, "ok")
    /\ UNCHANGED <<_children_ns, __dict__>>
    /\ UNCHANGED <<builderVars, ret, runVars, portVars, memVars, concVars,
                   idVars, kahnVars>>

\* __getattr__ without the test of lines 100-101: a name that is not a
\* child namespace gets one
__getattr___noitems(name) ==
    /\ IF HasKey(__dict__, name)
       THEN /\ nret' = NRet("__getattr__", name, "ok")
            /\ UNCHANGED _children_ns
       ELSE IF Private(name)
       THEN /\ nret' = NRet("__getattr__", name, "AttributeError")
            /\ UNCHANGED _children_ns
       ELSE IF HasKey(_children_ns, name)
       THEN /\ nret' = NRet("__getattr__", name, "ok")
            /\ UNCHANGED _children_ns
       ELSE /\ _children_ns' = SetItem(_children_ns, name, NewNamespace)
            /\ nret' = NRet("__getattr__", name, "ok")
    /\ UNCHANGED <<_children_items, __dict__>>
    /\ UNCHANGED <<builderVars, ret, runVars, portVars, memVars, concVars,
                   idVars, kahnVars>>

\* the attribute get "namespace.name": an instance attribute when there is
\* one, else __getattr__, lines 88-105
__getattr__(name) ==
    /\ IF HasKey(__dict__, name)
       THEN /\ nret' = NRet("__getattr__", name, "ok")
            /\ UNCHANGED _children_ns
       ELSE IF Private(name)
       THEN /\ nret' = NRet("__getattr__", name, "AttributeError")
            /\ UNCHANGED _children_ns
       ELSE IF HasKey(_children_ns, name) \/ HasKey(_children_items, name)
       THEN /\ nret' = NRet("__getattr__", name, "ok")
            /\ UNCHANGED _children_ns
       ELSE /\ _children_ns' = SetItem(_children_ns, name, NewNamespace)
            /\ nret' = NRet("__getattr__", name, "ok")
    /\ UNCHANGED <<_children_items, __dict__>>
    /\ UNCHANGED <<builderVars, ret, runVars, portVars, memVars, concVars,
                   idVars, kahnVars>>

\* the attribute set "namespace.name = value", lines 107-126; a value of
\* None is remove_item(name)
__setattr__(name, value) ==
    /\ IF Private(name)
       THEN /\ __dict__' = SetItem(__dict__, name, value)
            /\ nret' = NRet("__setattr__", name, "ok")
            /\ UNCHANGED _children_items
       ELSE IF value = None
       THEN /\ IF ~HasKey(_children_items, name)
               THEN /\ nret' = NRet("__setattr__", name, "AttributeError")
                    /\ UNCHANGED _children_items
               ELSE /\ _children_items' = DelItem(_children_items, name)
                    /\ nret' = NRet("__setattr__", name, "ok")
            /\ UNCHANGED __dict__
       ELSE IF HasKey(_children_ns, name)
       THEN /\ nret' = NRet("__setattr__", name, "AttributeError")
            /\ UNCHANGED <<_children_items, __dict__>>
       ELSE /\ _children_items' = SetItem(_children_items, name, value)
            /\ nret' = NRet("__setattr__", name, "ok")
            /\ UNCHANGED __dict__
    /\ UNCHANGED _children_ns
    /\ UNCHANGED <<builderVars, ret, runVars, portVars, memVars, concVars,
                   idVars, kahnVars>>

\* the attribute delete "del namespace.name", lines 128-147
__delattr__(name) ==
    /\ IF Private(name)
       THEN /\ IF HasKey(__dict__, name)
               THEN /\ __dict__' = DelItem(__dict__, name)
                    /\ nret' = NRet("__delattr__", name, "ok")
               ELSE /\ nret' = NRet("__delattr__", name, "AttributeError")
                    /\ UNCHANGED __dict__
            /\ UNCHANGED <<_children_ns, _children_items>>
       ELSE IF HasKey(_children_ns, name)
       THEN /\ _children_ns' = DelItem(_children_ns, name)
            /\ nret' = NRet("__delattr__", name, "ok")
            /\ UNCHANGED <<_children_items, __dict__>>
       ELSE IF HasKey(_children_items, name)
       THEN /\ _children_items' = DelItem(_children_items, name)
            /\ nret' = NRet("__delattr__", name, "ok")
            /\ UNCHANGED <<_children_ns, __dict__>>
       ELSE /\ nret' = NRet("__delattr__", name, "AttributeError")
            /\ UNCHANGED <<_children_ns, _children_items, __dict__>>
    /\ UNCHANGED <<builderVars, ret, runVars, portVars, memVars, concVars,
                   idVars, kahnVars>>

NextNs ==
    \/ \E name \in NsNames : create_namespace(name)
    \/ \E name \in NsNames : remove_namespace(name)
    \/ \E name \in NsNames, value \in NsValues : set_item(name, value)
    \/ \E name \in NsNames : remove_item(name)
    \/ \E name \in NsNames : __getattr__(name)
    \/ \E name \in NsNames, value \in NsValues \cup {None} :
          __setattr__(name, value)
    \/ \E name \in NsNames : __delattr__(name)

SpecNs == Init /\ [][NextNs]_vars

\* ========================================================================
\* Properties
\* ========================================================================
\* the state right after a build_trnx() that returned normally
BuiltOk == ret = Ret("build_trnx", "ok")

DirectEdge(t, p, q) ==
    \E e \in EdgeSet(t) : e.out_plugin = p /\ e.in_plugin = q

\* q is reachable from p through at most n declared edges
RECURSIVE ReachIn(_, _, _, _)
ReachIn(t, p, q, n) ==
    \/ DirectEdge(t, p, q)
    \/ /\ n > 1
       /\ \E r \in Classes : DirectEdge(t, p, r) /\ ReachIn(t, r, q, n - 1)

Reachable(t, p, q) == ReachIn(t, p, q, Cardinality(Classes))

HasCycle(t) == \E p \in Classes : Reachable(t, p, p)

\* p and q both occur in seq, and every p stands before every q
Before(seq, p, q) ==
    /\ \E i \in 1..Len(seq) : seq[i] = p
    /\ \E j \in 1..Len(seq) : seq[j] = q
    /\ \A i, j \in 1..Len(seq) : (seq[i] = p /\ seq[j] = q) => i < j

Injective(seq) ==
    \A i, j \in 1..Len(seq) : seq[i] = seq[j] => i = j

Range(seq) == {seq[j] : j \in 1..Len(seq)}

\* every declared edge of t is wired: its producer's output and its
\* consumer's input are bound to one port
EdgesWired(t) ==
    \A e \in EdgeSet(t) :
      LET a == insts[Lookup(_loaded_plugins[t], e.out_plugin)]
          b == insts[Lookup(_loaded_plugins[t], e.in_plugin)]
      IN  /\ a._outputs[e.out_port] # NoPort
          /\ a._outputs[e.out_port] = b._inputs[e.in_port]

\* C1: after a successful build, every plugin stands in the execution order
\* (the names of execution_order and the instances of the ordered list)
\* strictly before every plugin reachable from it through declared edges.
C1_TopologicalOrder ==
    BuiltOk =>
      LET t == _active_trnx IN
      /\ Len(plugins[t].list) = Len(execution_order)
      /\ \A j \in 1..Len(execution_order) :
            insts[plugins[t].list[j]].cls = execution_order[j]
      /\ \A p, q \in KeySet(_loaded_plugins[t]) :
            Reachable(t, p, q) => Before(execution_order, p, q)

\* C1 witness: a chain A -> B -> C built from the load order C, B, A, where
\* C depends on A only transitively
C1_Witness ==
    /\ BuiltOk
    /\ Keys(_loaded_plugins["t1"]) = <<"C", "B", "A">>
    /\ Reachable("t1", "A", "C")
    /\ ~DirectEdge("t1", "A", "C")

\* C3: after a successful build the execution order is a permutation of the
\* loaded plugins: same length, every loaded name once, nothing else; the
\* ordered instance list is the same permutation of the loaded instances.
C3_OrderIsPermutation ==
    BuiltOk =>
      LET t == _active_trnx
          loaded == _loaded_plugins[t]
      IN  /\ Len(execution_order) = Len(loaded)
          /\ Injective(execution_order)
          /\ Range(execution_order) = KeySet(loaded)
          /\ Len(plugins[t].list) = Len(loaded)
          /\ Injective(plugins[t].list)
          /\ Range(plugins[t].list) = {loaded[j].val : j \in 1..Len(loaded)}

\* C3 witness: a successful build of three plugins whose order is not the
\* load order
C3_Witness ==
    /\ BuiltOk
    /\ Len(_loaded_plugins["t1"]) = 3
    /\ execution_order # Keys(_loaded_plugins["t1"])

\* C4: a build whose port set-up passed ends with the cycle error exactly
\* when the declared edges contain a directed cycle (self-loops included,
\* repeated edges not counted twice).
C4_CycleErrorIffCycle ==
    (ret.op = "build_trnx"
       /\ ret.err \in {"ok", "RuntimeError: cycle detected",
                       "ValueError: not all required inputs set"})
      => ((ret.err = "RuntimeError: cycle detected") <=> HasCycle(_active_trnx))

\* C4 witness: the cycle error on the two-plugin cycle B -> C -> B, with no
\* self-loop declared
C4_Witness ==
    /\ ret = Ret("build_trnx", "RuntimeError: cycle detected")
    /\ DirectEdge("t1", "B", "C")
    /\ DirectEdge("t1", "C", "B")
    /\ \A p \in Classes : ~DirectEdge("t1", p, p)

\* C5: after a successful build, for every declared edge (A, o, B, i) the
\* port bound to output o of A and the port bound to input i of B are one
\* object.
C5_EdgeSharesRegion == BuiltOk => EdgesWired(_active_trnx)

\* C2: in every tick of run() on a graph that is as its successful build
\* left it (no plugin loaded since, every declared edge wired), for every
\* declared edge A -> B the process() of A has completed before that of B
\* begins.
C2_RunRespectsEdges ==
    (/\ running # None
     /\ Len(_plugins[running]) = Len(plugins[running].list)
     /\ EdgesWired(running)) =>
      \A j \in 1..Len(tickLog) :
        \A e \in EdgeSet(running) :
          insts[tickLog[j]].cls = e.in_plugin =>
            \E i \in 1..(j - 1) : insts[tickLog[i]].cls = e.out_plugin

\* C6: whenever the built flag of a graph is set, every plugin of the graph
\* (of its plugin map and of its runner list) has all required inputs bound.
C6_BuiltImpliesInputsBound ==
    \A t \in TrnxNames :
      _is_built[t] =>
        /\ \A j \in 1..Len(_loaded_plugins[t]) :
              verify(insts[_loaded_plugins[t][j].val])
        /\ \A j \in 1..Len(_plugins[t]) : verify(insts[_plugins[t][j]])

\* C7: a build_trnx() that raises is all-or-nothing: no shared-memory block
\* it created exists after it, no plugin keeps a port binding it made, and
\* the built flag is as before the call.
C7_FailedBuildRollsBack ==
    [][(ret'.op = "build_trnx" /\ ret'.err # "ok") =>
         /\ shm' = shm
         /\ insts' = insts
         /\ _is_built' = _is_built]_vars

\* C8: every (consumer, input port) pair is the destination of at most one
\* recorded edge.
C8_NoFanIn ==
    \A t \in TrnxNames :
      \A j, k \in 1..Len(Edges(t)) :
        (/\ Edges(t)[j].in_plugin = Edges(t)[k].in_plugin
         /\ Edges(t)[j].in_port = Edges(t)[k].in_port) => j = k

\* C9: every recorded edge between declared ports joins an output and an
\* input whose descriptors (shape, element type) are equal.
C9_EdgesJoinEqualDescriptors ==
    \A t \in TrnxNames :
      \A e \in EdgeSet(t) :
        (/\ e.out_port \in DOMAIN ProvidedOutputs(e.out_plugin)
         /\ e.in_port \in DOMAIN RequiredInputs(e.in_plugin))
          => ProvidedOutputs(e.out_plugin)[e.out_port]
               = RequiredInputs(e.in_plugin)[e.in_port]

\* C10: every recorded edge names an output port its producer declares and
\* an input port its consumer declares.
C10_EdgesNameDeclaredPorts ==
    \A t \in TrnxNames :
      \A e \in EdgeSet(t) :
        /\ e.out_port \in DOMAIN ProvidedOutputs(e.out_plugin)
        /\ e.in_port \in DOMAIN RequiredInputs(e.in_plugin)

\* C11: a connect that raises (no active graph, producer or consumer not a
\* loaded plugin of the active graph) leaves the edge map exactly as it
\* was, and a connect that changes the edge map of a graph adds one edge
\* whose producer and consumer are loaded plugins of that graph; so every
\* key of the edge map and every end of every edge is a loaded plugin and no
\* producer or port has an empty entry.
C11_ConnectUnknownPlugin ==
    /\ [][(ret'.op = "connect" /\ ret'.err # "ok")
            => _plugin_connections' = _plugin_connections]_vars
    /\ [](\A t \in TrnxNames :
            /\ \A e \in EdgeSet(t) :
                 {e.out_plugin, e.in_plugin} \subseteq KeySet(_loaded_plugins[t])
            /\ \A j \in 1..Len(_plugin_connections[t]) :
                 LET item == _plugin_connections[t][j]
                 IN  /\ item.key \in KeySet(_loaded_plugins[t])
                     /\ item.val # <<>>
                     /\ \A k \in 1..Len(item.val) : item.val[k].val # <<>>)

\* C11 witness: a connect has failed in a graph where only C is loaded (its
\* consumer, A or B, is not), after a connect of C had been tried
C11_Witness ==
    /\ ret = Ret("connect", "ValueError")
    /\ _active_trnx = "t1"
    /\ KeySet(_loaded_plugins["t1"]) = {"C"}
    /\ _plugin_connections["t1"] = <<>>

\* C12: no class name is loaded twice in one graph: the instances of the
\* plugin list of a graph have pairwise different class names (a load_plugin
\* of a loaded class name is rejected and adds nothing).
C12_NoDuplicateClass ==
    \A t \in TrnxNames :
      \A j, k \in 1..Len(_plugins[t]) :
        insts[_plugins[t][j]].cls = insts[_plugins[t][k]].cls => j = k

\* C13: the plugin map, the plugin list and the edge map of a graph whose
\* built flag is set never change (load_plugin and connect on it fail and
\* change nothing).
C13_BuiltGraphFrozen ==
    [][\A t \in TrnxNames :
         _is_built[t] =>
           /\ _loaded_plugins'[t] = _loaded_plugins[t]
           /\ _plugins'[t] = _plugins[t]
           /\ _plugin_connections'[t] = _plugin_connections[t]]_vars

\* C14: a build_trnx() on an active graph whose built flag is already set
\* is rejected: it does not return normally, creates no port and no
\* shared-memory block and changes no binding.
C14_SecondBuildRejected ==
    [][(/\ _active_trnx # None
        /\ _active_trnx' = _active_trnx
        /\ _is_built[_active_trnx]
        /\ ret' # ret
        /\ ret'.op = "build_trnx")
         => /\ ret'.err # "ok"
            /\ ports' = ports
            /\ shm' = shm
            /\ insts' = insts]_vars

\* C15: run() executes its loop, and so calls process(), only on a graph
\* whose built flag is set; and the flag of a graph is set only by a
\* build_trnx() of that graph that returns normally, after verify() of every
\* plugin of the ordered list has passed.  So run() on a graph never built,
\* or whose builds all failed, raises.
C15_RunOnlyAfterBuild ==
    /\ [](running # None => _is_built[running])
    /\ [](tickLog # <<>> => running # None)
    /\ [][\A t \in TrnxNames :
            (~_is_built[t] /\ _is_built'[t]) =>
              /\ ret' = Ret("build_trnx", "ok")
              /\ _active_trnx = t
              /\ plugins'[t].set
              /\ AllVerify(insts', plugins'[t].list)]_vars

\* C15 witness: run() has raised on a graph with a plugin whose only build
\* got as far as verify() and failed there
C15_Witness ==
    /\ ret = Ret("run", "ValueError")
    /\ running = None
    /\ _plugins["t1"] # <<>>
    /\ plugins["t1"].set
    /\ ~_is_built["t1"]

\* C16: a start_new_trnx(name) that returns normally has added a name that
\* designated no graph before; with a name that designates a graph it
\* raises, and then the graph map, the active graph and every graph's plugin
\* map, plugin list, edge map and built flag are as before.
C16_StartNewNameInUse ==
    /\ [][(ret'.op = "start_new_trnx" /\ ret'.err = "ok")
            => /\ _trnxs' # _trnxs
               /\ _active_trnx' \in _trnxs' \ _trnxs]_vars
    /\ [][(ret'.op = "start_new_trnx" /\ ret'.err # "ok")
            => UNCHANGED builderVars]_vars
    /\ [][\A t \in _trnxs :
            /\ t \in _trnxs'
            /\ Len(_loaded_plugins'[t]) >= Len(_loaded_plugins[t])
            /\ Len(_plugins'[t]) >= Len(_plugins[t])
            /\ Len(Edges(t)') >= Len(Edges(t))
            /\ (_is_built[t] => _is_built'[t])]_vars

\* C16 witness: start_new_trnx("t1") has raised while t1 had plugins and an
\* edge
C16_Witness ==
    /\ ret = Ret("start_new_trnx", "ValueError")
    /\ Len(_plugins["t1"]) = 2
    /\ Edges("t1") # <<>>
    /\ _active_trnx = "t1"

\* C17: an exception raised by a plugin's process() does not leave run():
\* run() never ends with a plugin's exception (the loop goes on with the
\* next plugin).
C17_ProcessErrorIsolated ==
    ~(running = None /\ ret = Ret("run", "PluginError"))

\* C18: once a stop of the executing run() has been requested (a process()
\* call is one step, so the request falls on a plugin boundary), run()
\* starts no further process() call: while it is still executing, no call
\* completes and the loop does not advance.
C18_NoProcessAfterCancel ==
    [][(cancelled /\ running # None /\ running' # None)
         => (tickLog' = tickLog /\ runIdx' = runIdx)]_vars

\* C19: run() on a built graph never ends on its own, and the calls of the
\* current tick are the plugins of the list, each once, in list order.
C19_RunLoopsForever ==
    /\ [][running # None => running' = running]_vars
    /\ [](running # None =>
            /\ Len(tickLog) <= Len(_plugins[running])
            /\ \A j \in 1..Len(tickLog) : tickLog[j] = _plugins[running][j])

\* the array differs from the port in shape or element type
Mismatch(data, p) == data.shape # p.shape \/ data.dtype # p.dtype

\* C20: a write of an array whose shape or dtype differs from the port's
\* raises ValueError and leaves the contents as they were; any other write
\* returns normally and makes the contents the array written; so the
\* contents always have the number of elements of the port's shape, hold
\* the last array written with that shape and dtype, and every read returns
\* an array of the port's shape and dtype.
C20_WriteChecksShape ==
    /\ [][pret'.op = "write" =>
            IF Mismatch(pret'.val, sm_port)
            THEN pret'.err = "ValueError" /\ array' = array
            ELSE pret'.err = "ok" /\ array' = pret'.val.data]_vars
    /\ [](Len(array) = Prod(sm_port.shape))
    /\ [](pret.op = "read" =>
            /\ pret.err = "ok"
            /\ pret.val.shape = sm_port.shape
            /\ pret.val.dtype = sm_port.dtype
            /\ pret.val.data = array)

\* C20 witness: a write of an array of the port's dtype and number of
\* elements but of another shape (1 x 2 for 2) has failed on a port whose
\* contents an earlier write had set
C20_Witness ==
    /\ pret.op = "write"
    /\ pret.err = "ValueError"
    /\ pret.val.dtype = sm_port.dtype
    /\ Prod(pret.val.shape) = Prod(sm_port.shape)
    /\ pret.val.shape # sm_port.shape
    /\ \E j \in 1..Len(array) : array[j] = 1

\* C21: the contents of a block change only by a write that returns
\* normally on a port object mapping it, and become the array written; a
\* read returns the contents of the block its port object maps.  So a read
\* returns the array of the most recent successful write to the block, and
\* a read that follows a write, through any port object on the same block,
\* returns the array written.
C21_ReadReturnsLastWrite ==
    /\ [][\A b \in 1..Len(mem) :
            mem'[b] # mem[b] =>
              /\ mret'.op = "write" /\ mret'.err = "ok"
              /\ hblk[mret'.h] = b
              /\ mem'[b] = mret'.val.data]_vars
    /\ [](mret.op = "read" =>
            /\ mret.err = "ok"
            /\ mret.val.data = mem[hblk[mret.h]]
            /\ got = Copy(mret.val.data))
    /\ [][(/\ mret.op = "write" /\ mret.err = "ok"
           /\ mret'.op = "read"
           /\ hblk[mret'.h] = hblk[mret.h])
            => mret'.val.data = mret.val.data]_vars

\* C21 witness: a read through the second port object attached to the block
\* of the first has returned the array <<1, 0>>, which a write had stored
C21_Witness ==
    /\ mret.op = "read"
    /\ mret.h = 2
    /\ hblk[2] = hblk[1]
    /\ mret.val.data = <<1, 0>>

\* C22: every array a read returns is whole: it is the initial contents of
\* the block or the array of one write (the writer passes arrays whose
\* elements are all equal, so a whole array has all elements equal), never
\* elements of two writes.
C22_NoTornRead ==
    (thr.r.pc = "idle" /\ thr.r.out # <<>>) => thr.r.out \in WholeArrays

\* the elements of the array the caller of the last read() holds
GotValue == IF got.view THEN mem[got.blk] ELSE got.data

\* C23: the array a read returned is a copy: no later call that is not a
\* read, a write to the block above all, changes the elements of the array
\* the caller holds.
C23_ReadReturnsCopy ==
    [][mret'.op # "read" => GotValue' = GotValue]_vars

\* C23 witness: after a read, a write has changed the block, and the array
\* the reader holds is still the one it was given
C23_Witness ==
    /\ mret.op = "write" /\ mret.err = "ok"
    /\ got.data = <<0, 1>>
    /\ mem[hblk[mret.h]] = <<1, 0>>

\* C24: constructing a port object when no block has the name creates a
\* block whose contents are all zero, and they stay zero until a write to
\* it (no step but a write changes the contents of a block); constructing
\* one when a block has the name attaches to that block and keeps its
\* contents.
C24_CreateZeroAttachKeeps ==
    /\ [][Len(ports') > Len(ports) =>
            LET h == Len(ports') IN
            IF link = 0
            THEN /\ link' = Len(mem) + 1
                 /\ hblk'[h] = link'
                 /\ mem' = Append(mem, Zeros(ports'[h].shape))
            ELSE /\ link' = link
                 /\ hblk'[h] = link
                 /\ mem' = mem]_vars
    /\ [][\A b \in 1..Len(mem) :
            mem'[b] # mem[b] => mret'.op = "write"]_vars

\* C24 witness: the second port object has been attached to the block of
\* the first, which holds an array written before
C24_Witness ==
    /\ mret.op = "new"
    /\ mret.h = 2
    /\ hblk[2] = hblk[1]
    /\ mem[hblk[2]] = <<1, 1>>

\* C25: unlink is idempotent: an unlink of a block name that has already
\* been unlinked returns normally (a no-op); no unlink raises.
C25_UnlinkIdempotent ==
    mret.op = "unlink" => mret.err = "ok"

\* C26: after the shutdown of the graphs no shared-memory block that a
\* build of theirs created exists any more.
C26_ShutdownUnlinksRegions ==
    ret.op = "shutdown" => shm = {}

\* C27: in every reachable state the input names a plugin has a port bound
\* to are among its declared required inputs and the output names it has a
\* port bound to are among its declared outputs; a build that stops at a
\* binding to an undeclared name (set_input_port or set_output_port raised)
\* has left that name unbound.
C27_BoundPortsAreDeclared ==
    \A j \in 1..Len(insts) :
      /\ \A p \in InPortNames :
           insts[j]._inputs[p] # NoPort => p \in DOMAIN RequiredInputs(insts[j].cls)
      /\ \A p \in OutPortNames :
           insts[j]._outputs[p] # NoPort => p \in DOMAIN ProvidedOutputs(insts[j].cls)

\* C27 witness: a build has stopped at set_input_port for the input "i"
\* that class A does not declare, after the port of the edge was made
C27_Witness ==
    /\ ret = Ret("build_trnx", "ValueError: input not defined")
    /\ ports # <<>>
    /\ \E e \in EdgeSet("t1") : e.in_plugin = "A" /\ e.in_port = "i"
    /\ \E j \in 1..Len(insts) : insts[j].cls = "A" /\ insts[j]._inputs["i"] = NoPort

\* C28: a build that reaches the verify() calls ends with their ValueError
\* exactly when a plugin of the ordered list has a required input with no
\* port bound; declared outputs without a port make no verify() fail; and
\* the verify() calls leave the bindings as the port set-up made them (a
\* port is bound exactly where a declared edge ends or starts).
C28_VerifyIffInputUnbound ==
    (ret.op = "build_trnx"
       /\ ret.err \in {"ok", "ValueError: not all required inputs set"}) =>
      LET t == _active_trnx
          list == plugins[t].list
      IN  /\ (ret.err # "ok") <=>
                \E j \in 1..Len(list) :
                  \E p \in DOMAIN RequiredInputs(insts[list[j]].cls) :
                    insts[list[j]]._inputs[p] = NoPort
          /\ \A j \in 1..Len(list) :
                insts[list[j]]._inputs["i"] # NoPort =>
                  \E e \in EdgeSet(t) :
                    e.in_plugin = insts[list[j]].cls /\ e.in_port = "i"

\* C28 witness: a build has passed every verify() although plugin B, whose
\* input is bound, has no port on its declared output "o"
C28_Witness ==
    /\ BuiltOk
    /\ \E j \in 1..Len(plugins["t1"].list) :
         LET pl == insts[plugins["t1"].list[j]]
         IN  /\ pl.cls = "B"
             /\ pl._inputs["i"] # NoPort
             /\ pl._outputs["o"] = NoPort

\* C29: no identifier is made live twice: generate_id returns an identifier
\* that was not live before the call and makes it live; register_id of a
\* live identifier raises and leaves the live set and its objects as they
\* were, and of any other identifier makes it live; no call removes one.
C29_IdsNeverLiveTwice ==
    /\ [][iret'.op = "generate" =>
            /\ iret'.id \notin KeySet(_generated_ids)
            /\ KeySet(_generated_ids') = KeySet(_generated_ids) \cup {iret'.id}]_vars
    /\ [][iret'.op = "register" =>
            IF iret'.id \in KeySet(_generated_ids)
            THEN iret'.err = "ValueError" /\ _generated_ids' = _generated_ids
            ELSE /\ iret'.err = "ok"
                 /\ KeySet(_generated_ids') = KeySet(_generated_ids) \cup {iret'.id}]_vars
    /\ [][\A j \in 1..Len(_generated_ids) :
            _generated_ids'[j] = _generated_ids[j]]_vars

\* C29 witness: register_id has raised for an identifier that is live, with
\* another identifier live as well
C29_Witness ==
    /\ iret.op = "register"
    /\ iret.err = "ValueError"
    /\ iret.id \in KeySet(_generated_ids)
    /\ Len(_generated_ids) = 2

\* the names "<producer>_<output port>" of the sources of the declared
\* edges of t
SourceNames(t) == {e.out_plugin \o "_" \o e.out_port : e \in EdgeSet(t)}

\* C30: after a successful build the shared-memory blocks that exist, and
\* the names of the port objects made, are exactly the names
\* "<producer>_<output port>" of the sources of the declared edges: an
\* output that no edge starts from has no block; a graph of one plugin and
\* no edge builds with the order [P], no block and no port object.
C30_RegionNamesAreEdgeSources ==
    BuiltOk =>
      LET t == _active_trnx IN
      /\ shm = SourceNames(t)
      /\ {ports[j].name : j \in 1..Len(ports)} = SourceNames(t)
      /\ (Len(_loaded_plugins[t]) = 1 /\ Edges(t) = <<>>) =>
            /\ execution_order = Keys(_loaded_plugins[t])
            /\ shm = {}
            /\ ports = <<>>

\* C30 witness: a successful build of A, B and C with the two edges from
\* output "o" of A, to B and to C: one block, "A_o", and none for the
\* outputs of B and C
C30_Witness ==
    /\ BuiltOk
    /\ Len(_loaded_plugins["t1"]) = 3
    /\ Len(Edges("t1")) = 2
    /\ DirectEdge("t1", "A", "B")
    /\ DirectEdge("t1", "A", "C")
    /\ shm = {"A_o"}
\* C31: after a successful build no two distinct (producer plugin, output
\* port) pairs are bound to the same shared-memory region, whatever the
\* class names and port names are
C31_OneWriterPerRegion ==
    BuiltOk =>
      \A j1, j2 \in 1..Len(insts) :
        \A p1, p2 \in OutPortNames :
          (/\ insts[j1]._outputs[p1] # NoPort
           /\ insts[j2]._outputs[p2] # NoPort
           /\ <<j1, p1>> # <<j2, p2>>)
          => ports[insts[j1]._outputs[p1]].name
               # ports[insts[j2]._outputs[p2]].name

\* C32: the execution order is a function of the load order and the edges:
\* every order the sort can produce for the built graph is the one that was
\* stored, and fan-out A->B, A->C loaded as A, B, C gives [A, B, C]
C32_OrderIsDeterministic ==
    BuiltOk =>
      LET loaded == _loaded_plugins["t1"]
          g == Graph(loaded, Edges("t1"))
      IN  /\ \A iter \in IterOrders(g.dependency_graph) :
               compute_execution_order(loaded, Edges("t1"), iter).order
                 = execution_order
          /\ (/\ Keys(loaded) = <<"A", "B", "C">>
              /\ g.dependency_graph
                   = [p \in {"A", "B", "C"} |->
                        IF p = "A" THEN {"B", "C"} ELSE {}])
             => execution_order = <<"A", "B", "C">>

\* the connections of "t1" are legal: declared ports (WireArgs), equal
\* descriptors on both ends, at most one edge into every input
LegalWiring ==
    LET edges == Edges("t1")
    IN  /\ \A j \in 1..Len(edges) :
             \A c \in Classes :
               \A d \in Classes :
                 (edges[j].out_plugin = c /\ edges[j].in_plugin = d)
                 => ProvidedOutputs(c)[edges[j].out_port]
                      = RequiredInputs(d)[edges[j].in_port]
        /\ \A j, k \in 1..Len(edges) :
             (/\ edges[j].in_plugin = edges[k].in_plugin
              /\ edges[j].in_port = edges[k].in_port) => j = k

\* the region name every port of every plugin is bound to ("" when unbound)
BindingNames(b) ==
    [j \in 1..Len(b.insts) |->
       [i |-> [p \in InPortNames |->
                 IF b.insts[j]._inputs[p] = NoPort THEN ""
                 ELSE b.ports[b.insts[j]._inputs[p]].name],
        o |-> [p \in OutPortNames |->
                 IF b.insts[j]._outputs[p] = NoPort THEN ""
                 ELSE b.ports[b.insts[j]._outputs[p]].name]]]

\* the connect calls of the edges of "t1", made in the order perm
Rewired(perm) ==
    LET edges == Edges("t1")
    IN  Wire(<<>>, [j \in 1..Len(edges) |->
                      <<edges[perm[j]].out_plugin, edges[perm[j]].out_port,
                        edges[perm[j]].in_plugin, edges[perm[j]].in_port>>])

\* C33: wiring is commutative: the same legal connect calls made in any
\* other order build the same graph (execution order, region names and
\* port-to-region bindings)
C33_WiringCommutes ==
    (BuiltOk /\ LegalWiring) =>
      \A perm \in SetOrders(1..Len(Edges("t1"))) :
        LET loaded == _loaded_plugins["t1"]
            conns == Rewired(perm)
            b == BuildPlugins([insts |-> [j \in 1..Len(insts) |->
                                            NewPlugin(insts[j].cls)],
                               ports |-> <<>>, shm |-> {}, err |-> "ok"],
                              loaded, conns)
            edges == FlatPlugins(conns)
            g == Graph(loaded, edges)
        IN  /\ b.err = "ok"
            /\ b.shm = shm
            /\ BindingNames(b)
                 = BindingNames([insts |-> insts, ports |-> ports])
            /\ \A iter \in IterOrders(g.dependency_graph) :
                 compute_execution_order(loaded, edges, iter).order
                   = execution_order
\* C34: a plugin's write to one of its declared outputs that has no bound
\* region raises nothing and changes no region and no plugin state
C34_UnboundWriteDropped ==
    [][\A j \in 1..Len(insts) :
         \A p \in DOMAIN ProvidedOutputs(insts[j].cls) :
           (/\ mret'.op = "_write_output"
            /\ mret'.h = <<j, p>>
            /\ insts[j]._outputs[p] = NoPort)
           => /\ mret'.err = "ok"
              /\ mem' = mem
              /\ insts' = insts
              /\ UNCHANGED <<ports, shm, link, hblk>>]_vars

\* B has written its unbound output "o" after A wrote the region "A_o"
C34_Witness ==
    /\ mret.op = "_write_output"
    /\ mret.h = <<2, "o">>
    /\ mret.err = "ok"
    /\ insts[2]._outputs["o"] = NoPort
    /\ mem[1] = <<1, 0>>
C36_MapAndListAgree ==
    \A t \in TrnxNames :
      /\ Injective(_plugins[t])
      /\ Range(_plugins[t])
           = {_loaded_plugins[t][j].val : j \in 1..Len(_loaded_plugins[t])}
      /\ Len(_plugins[t]) = Len(_loaded_plugins[t])
\* C37: with several graphs started, every step of start_new, set_active,
\* load_plugin, connect and build leaves the plugin map, the edge map, the
\* plugin lists and the built flag of every graph but the active one (the
\* one start_new / set_active selects) as they were
C37_OnlyActiveGraphChanges ==
    [][\A t \in TrnxNames \ {_active_trnx'} :
         /\ _loaded_plugins'[t] = _loaded_plugins[t]
         /\ _plugin_connections'[t] = _plugin_connections[t]
         /\ _plugins'[t] = _plugins[t]
         /\ plugins'[t] = plugins[t]
         /\ _is_built'[t] = _is_built[t]]_vars

\* both graphs are started, "t1" holds A, and with "t2" active a plugin was
\* loaded into "t2" and "t2" was built
C37_Witness ==
    /\ _trnxs = {"t1", "t2"}
    /\ _active_trnx = "t2"
    /\ Keys(_loaded_plugins["t1"]) = <<"A">>
    /\ Keys(_loaded_plugins["t2"]) = <<"A">>
    /\ _plugins["t1"] # _plugins["t2"]
    /\ _is_built["t2"] /\ ~_is_built["t1"]
    /\ BuiltOk
\* C38: the topological sort terminates on every graph, cyclic or not: no
\* plugin is in the queue or the output more than once (each is enqueued
\* and emitted at most once), no in-degree is negative, the output never
\* exceeds the plugins, and the loop is left after finitely many iterations
C38_SortTerminates ==
    /\ [](kahn.pc # "idle" =>
            /\ Injective(kahn.sorted_plugins \o kahn.queue)
            /\ Range(kahn.sorted_plugins \o kahn.queue)
                 \subseteq KeySet(_loaded_plugins["t1"])
            /\ \A p \in DOMAIN kahn.in_degree : kahn.in_degree[p] >= 0)
    /\ [][kahn'.pc = "while" =>
            Len(kahn'.sorted_plugins) = Len(kahn.sorted_plugins) + 1]_vars
    /\ <>(kahn.pc \in {"return", "RuntimeError: cycle detected"})

\* the sort has left its loop on the cycle B <-> C with the source A loaded:
\* A was emitted, B and C never reached in-degree 0
C38_Witness ==
    /\ kahn.pc = "RuntimeError: cycle detected"
    /\ kahn.sorted_plugins = <<"A">>
    /\ DOMAIN kahn.dependency_graph = Classes
    /\ kahn.dependency_graph["B"] = {"C"}
    /\ kahn.dependency_graph["C"] = {"B"}
    /\ kahn.in_degree["B"] = 1
====
